---- MODULE Spec2Model ----
(***************************************************************************)
(* Model of the indexed ReturnVerification component                       *)
(* (src/src/components/ResumeVerification.tsx, lines 511-1647): the record *)
(* list, the exact and prefix match indices, the debounced verification    *)
(* state machine with its two timers, file upload with asynchronous        *)
(* FileReader completion, row selection and the bulk "mark selected"       *)
(* operation.                                                              *)
(*                                                                         *)
(* Strings are sequences of one-character strings, so that trim,           *)
(* toLowerCase, slice and the digit test are computed, not assumed.        *)
(* Positions in the record list are 1-based here and 0-based in the code.  *)
(* A React render commits the state written by a handler before the next   *)
(* event is handled, so each handler is one atomic action; a timer         *)
(* callback keeps the awbList / verifyAwb values of the render in which    *)
(* the keystroke handler that scheduled it was created.                    *)
(***************************************************************************)
EXTENDS Integers, Sequences, FiniteSets, Bags, TLC

\* ------------------------------------------------------------------------
\* Bounds of the model
\* ------------------------------------------------------------------------
\* number of FileReader reads that may be in flight at the same time
MaxReaders == 2

\* number of uploads started in one behaviour
MaxUploads == 2

\* number of records of a list on which the matching is examined
MaxListLen == 2

\* number of reads the ResumeVerification page may have in flight
MaxResumeReads == 1

\* number of timeouts of ReturnVerification.tsx pending at the same time
MaxRvTimers == 2

\* ------------------------------------------------------------------------
\* Program constants
\* ------------------------------------------------------------------------
\* minimum trimmed length that starts a verification
MinAwbLength == 5

\* null in a timer ref; setTimeout ids are positive
NULL == 0

\* null in fileName
NoFileName == "null"

\* ------------------------------------------------------------------------
\* Strings
\* ------------------------------------------------------------------------
Digits == {"0", "1", "2", "3", "4", "5", "6", "7", "8", "9"}

\* String.prototype.toLowerCase on one character of the model's alphabet
LowerChar(c) ==
    CASE c = "A" -> "a"
      [] c = "B" -> "b"
      [] c = "D" -> "d"
      [] c = "E" -> "e"
      [] c = "S" -> "s"
      [] c = "C" -> "c"
      [] c = "I" -> "i"
      [] c = "K" -> "k"
      [] c = "M" -> "m"
      [] c = "N" -> "n"
      [] c = "Q" -> "q"
      [] c = "U" -> "u"
      [] c = "W" -> "w"
      [] OTHER -> c

toLowerCase(s) == [i \in 1..Len(s) |-> LowerChar(s[i])]

IsSpace(c) == c = " "

RECURSIVE trimStart(_)
trimStart(s) ==
    IF s # <<>> /\ IsSpace(Head(s)) THEN trimStart(Tail(s)) ELSE s

RECURSIVE trimEnd(_)
trimEnd(s) ==
    IF s # <<>> /\ IsSpace(s[Len(s)]) THEN trimEnd(SubSeq(s, 1, Len(s) - 1)) ELSE s

\* String.prototype.trim
trim(s) == trimEnd(trimStart(s))

\* s.slice(0, -1)
dropLast(s) == SubSeq(s, 1, Len(s) - 1)

\* /^\d+$/.test(s)
allDigits(s) == Len(s) > 0 /\ \A i \in 1..Len(s) : s[i] \in Digits

\* s.includes(sub)
includes(s, sub) ==
    \E i \in 0..(Len(s) - Len(sub)) : SubSeq(s, i + 1, i + Len(sub)) = sub

DELHIVERY == <<"d", "e", "l", "h", "i", "v", "e", "r", "y">>

\* item.courierPartner?.toLowerCase().includes("delhivery")
isDelhivery(item) == includes(toLowerCase(item.courierPartner), DELHIVERY)

\* ------------------------------------------------------------------------
\* Records (ReturnItem) and the files offered to the upload
\* ------------------------------------------------------------------------
\* the fallback texts 'Unknown' and '-'
Unknown == <<"U", "n", "k", "n", "o", "w", "n">>

Dash == <<"-">>

CourierDelhivery == <<"D", "e", "l", "h", "i", "v", "e", "r", "y">>
CourierDelhiverySurface == <<"d", "e", "l", "h", "i", "v", "e", "r", "y", " ", "S">>
CourierEkart == <<"E", "k", "a", "r", "t">>

\* newItem as assembled by the extraction; received starts false
ReturnItem(awb, courier, suborder) ==
    [awb |-> awb, courierPartner |-> courier, suborderId |-> suborder,
     received |-> FALSE]

DataA ==
    << ReturnItem(<<"1", "2", "3", "4", "5">>, CourierDelhivery, "S1"),
       ReturnItem(<<"1", "2", "3", "4", "6">>, CourierDelhiverySurface, "S2") >>

DataB ==
    << ReturnItem(<<"1", "2", "3", "4", "A">>, CourierEkart, "S3") >>

\* what reading and parsing one chosen file leads to: kind "ok" runs the
\* extraction and yields data (possibly none), "badheader" makes the header
\* checks throw, "readerror" makes the FileReader report an error
Files ==
    { [kind |-> "ok", name |-> "a.xlsx", data |-> DataA],
      [kind |-> "ok", name |-> "b.xlsx", data |-> DataB],
      [kind |-> "ok", name |-> "empty.xlsx", data |-> <<>>],
      [kind |-> "badheader", name |-> "bad.xlsx", data |-> <<>>],
      [kind |-> "readerror", name |-> "unreadable.xlsx", data |-> <<>>] }

\* values of the input field delivered by change events
InputValues ==
    { <<"1", "2", "3", "4", "5", " ">>,
      <<"1", "2", "3", "4", "7">>,
      <<" ", "1", "2", "3", "4">> }

\* ------------------------------------------------------------------------
\* Match indices
\* ------------------------------------------------------------------------
EmptyMap == <<>>

\* Map.get, with undefined rendered as the empty list of positions
MapGet(m, k) == IF k \in DOMAIN m THEN m[k] ELSE <<>>

\* if (!map.has(key)) map.set(key, []); map.get(key).push(index)
MapPush(m, k, index) ==
    IF k \in DOMAIN m
    THEN [m EXCEPT ![k] = Append(@, index)]
    ELSE [x \in (DOMAIN m) \cup {k} |-> IF x = k THEN <<index>> ELSE m[x]]

\* the exact index after extractedData.forEach has visited items i..end
RECURSIVE buildAwbMap(_, _, _)
buildAwbMap(extractedData, i, m) ==
    IF i > Len(extractedData) THEN m
    ELSE buildAwbMap(extractedData, i + 1,
                     MapPush(m, toLowerCase(extractedData[i].awb), i))

\* buildDelhiveryPrefixMap without the courier test
RECURSIVE buildDelhiveryPrefixMap_AnyCourier(_, _, _)
buildDelhiveryPrefixMap_AnyCourier(extractedData, i, m) ==
    IF i > Len(extractedData) THEN m
    ELSE LET item == extractedData[i]
             key == toLowerCase(item.awb)
             prefix == dropLast(key)
         IN  buildDelhiveryPrefixMap_AnyCourier(extractedData, i + 1,
                 IF Len(prefix) > 0 /\ allDigits(prefix)
                 THEN MapPush(m, prefix, i)
                 ELSE m)

\* the prefix index after extractedData.forEach has visited items i..end
RECURSIVE buildDelhiveryPrefixMap(_, _, _)
buildDelhiveryPrefixMap(extractedData, i, m) ==
    IF i > Len(extractedData) THEN m
    ELSE LET item == extractedData[i]
             key == toLowerCase(item.awb)
             prefix == dropLast(key)
         IN  buildDelhiveryPrefixMap(extractedData, i + 1,
                 IF isDelhivery(item) /\ Len(prefix) > 0 /\ allDigits(prefix)
                 THEN MapPush(m, prefix, i)
                 ELSE m)

newAwbMap(extractedData) == buildAwbMap(extractedData, 1, EmptyMap)

newDelhiveryPrefixMap(extractedData) ==
    buildDelhiveryPrefixMap(extractedData, 1, EmptyMap)

\* verifyAwbPrefix looking up the whole input instead of its prefix
verifyAwbPrefix_WholeInput(prefixMap, normalizedInput) ==
    IF Len(normalizedInput) > 1
    THEN LET inputPrefix == dropLast(normalizedInput)
         IN  IF Len(inputPrefix) > 0 /\ allDigits(inputPrefix)
             THEN MapGet(prefixMap, normalizedInput)
             ELSE <<>>
    ELSE <<>>

\* the prefix-index lookup of verifyAwb, reached after the exact index missed
verifyAwbPrefix(prefixMap, normalizedInput) ==
    IF Len(normalizedInput) > 1
    THEN LET inputPrefix == dropLast(normalizedInput)
         IN  IF Len(inputPrefix) > 0 /\ allDigits(inputPrefix)
             THEN MapGet(prefixMap, inputPrefix)
             ELSE <<>>
    ELSE <<>>

\* verifyAwb: positions matched by inputAwb, exact index first
verifyAwb(exactMap, prefixMap, inputAwb) ==
    LET normalizedInput == trim(toLowerCase(inputAwb))
        exactMatches == MapGet(exactMap, normalizedInput)
    IN  IF normalizedInput = <<>> THEN <<>>
        ELSE IF Len(exactMatches) > 0 THEN exactMatches
        ELSE verifyAwbPrefix(prefixMap, normalizedInput)

\* ------------------------------------------------------------------------
\* State
\* ------------------------------------------------------------------------
VARIABLES
    awbList,                       \* useState<ReturnItem[]>
    awbMap,                        \* useState<Map<string, number[]>>, exact index
    delhiveryPrefixMap,            \* useState<Map<string, number[]>>, prefix index
    currentAwb,                    \* content of the input field
    fileName,
    isVerifying,
    verificationStatus,            \* 'success' | 'error' | 'info' | 'idle'
    selectedAwbs,                  \* useState<Set<string>>
    timers,                        \* setTimeout timers not yet fired or cleared
    verificationDebounceTimerRef,  \* timer id or NULL
    clearInputTimerRef,            \* timer id or NULL
    readers,                       \* FileReader reads in flight, a bag of files
    uploads,                       \* number of uploads started
    mounted,                       \* FALSE once the component is torn down
    toast,                         \* the toast the latest step handed to the toast sink
    filters,                       \* useState, the filters of the pending table
    report,                        \* the sheet the latest step handed to XLSX.writeFile
    reportList,                    \* ResumeVerification: useState<ReportItem[]>
    resumeReaders,                 \* ResumeVerification: reads in flight, a bag of sheets
    resumeAwbMap,                  \* ResumeVerification: useState<Map<string, number>>
    resumeCurrentAwb,              \* ResumeVerification: content of the input field
    resumeIsVerifying,             \* ResumeVerification: useState<boolean>
    resumeVerificationStatus,      \* ResumeVerification: useState<VerificationStatus>
    resumeSelectedAwbs,            \* ResumeVerification: useState<Set<string>>
    resumeTimers,                  \* ResumeVerification: timers not yet fired or cleared
    rvAwbList,                     \* ReturnVerification.tsx: useState<ReturnItem[]>
    rvCurrentAwb,                  \* ReturnVerification.tsx: content of the input field
    rvIsVerifying,                 \* ReturnVerification.tsx: useState<boolean>
    rvVerificationStatus,          \* ReturnVerification.tsx: useState<VerificationStatus>
    rvTimers,                      \* ReturnVerification.tsx: pending timeouts, a bag
    memoryState,                   \* use-toast.ts: let memoryState: State
    toastTimeouts,                 \* use-toast.ts: Map<string, timeout handle>
    count,                         \* use-toast.ts: let count, the last id given out
    pendingTimeouts                \* use-toast.ts: setTimeout calls not yet fired or cleared

vars == << awbList, awbMap, delhiveryPrefixMap, currentAwb, fileName,
           isVerifying, verificationStatus, selectedAwbs, timers,
           verificationDebounceTimerRef, clearInputTimerRef, readers,
           uploads, mounted, toast, filters, report, reportList,
           resumeReaders, resumeAwbMap, resumeCurrentAwb,
           resumeIsVerifying, resumeVerificationStatus, resumeSelectedAwbs,
           resumeTimers, rvAwbList, rvCurrentAwb, rvIsVerifying,
           rvVerificationStatus, rvTimers, memoryState, toastTimeouts,
           count, pendingTimeouts >>

\* the state of the ResumeVerification page
resumeVars == << reportList, resumeReaders, resumeAwbMap, resumeCurrentAwb,
                resumeIsVerifying, resumeVerificationStatus,
                resumeSelectedAwbs, resumeTimers >>

\* the verification state of the ResumeVerification page as useState
\* initializes it
resumeInitial ==
    /\ resumeAwbMap = EmptyMap
    /\ resumeCurrentAwb = <<>>
    /\ resumeIsVerifying = FALSE
    /\ resumeVerificationStatus = "idle"
    /\ resumeSelectedAwbs = {}
    /\ resumeTimers = {}

\* the state of the component of ReturnVerification.tsx
rvVars == << rvAwbList, rvCurrentAwb, rvIsVerifying, rvVerificationStatus,
            rvTimers >>

\* the component of ReturnVerification.tsx as useState initializes it
\* the toast store of use-toast.ts
storeVars == << memoryState, toastTimeouts, count, pendingTimeouts >>

\* the module-level initial values of the toast store
storeInitial ==
    /\ memoryState = [toasts |-> <<>>]
    /\ toastTimeouts = <<>>
    /\ count = 0
    /\ pendingTimeouts = {}

rvInitial ==
    /\ rvAwbList = <<>>
    /\ rvCurrentAwb = <<>>
    /\ rvIsVerifying = FALSE
    /\ rvVerificationStatus = "idle"
    /\ rvTimers = EmptyBag

NoToast == [title |-> "none", verified |-> 0, total |-> 0]

Toast(title) == [title |-> title, verified |-> 0, total |-> 0]

\* the filters as useState and clearFilters set them: nothing is restricted
NoFilters == [awb |-> <<>>, courierPartner |-> {}]

\* no sheet was written
NoReport == <<>>

Init ==
    /\ awbList = <<>>
    /\ awbMap = EmptyMap
    /\ delhiveryPrefixMap = EmptyMap
    /\ currentAwb = <<>>
    /\ fileName = NoFileName
    /\ isVerifying = FALSE
    /\ verificationStatus = "idle"
    /\ selectedAwbs = {}
    /\ timers = {}
    /\ verificationDebounceTimerRef = NULL
    /\ clearInputTimerRef = NULL
    /\ readers = EmptyBag
    /\ uploads = 0
    /\ mounted = TRUE
    /\ toast = NoToast
    /\ filters = NoFilters
    /\ report = NoReport
    /\ reportList = <<>>
    /\ resumeReaders = EmptyBag
    /\ resumeInitial
    /\ rvInitial
    /\ storeInitial

\* ------------------------------------------------------------------------
\* Timers
\* ------------------------------------------------------------------------
\* clearTimeout(id): the timer with that id, if still pending, never fires
clearTimeout(ts, id) == { t \in ts : t.id # id }

\* the id setTimeout returns: one that no pending timer and no ref holds
newTimerId(ts) ==
    LET used == { t.id : t \in ts }
                  \cup {verificationDebounceTimerRef, clearInputTimerRef}
    IN  CHOOSE n \in 1..(Cardinality(used) + 1) : n \notin used

debounceTimers == { t \in timers : t.kind = "debounce" }

clearInputTimers == { t \in timers : t.kind = "clear" }

DebounceTimer(id, trimmedAwb) ==
    [id |-> id, kind |-> "debounce", trimmedAwb |-> trimmedAwb,
     awbList |-> awbList, awbMap |-> awbMap,
     delhiveryPrefixMap |-> delhiveryPrefixMap]

ClearInputTimer(id, trimmedAwb) ==
    [id |-> id, kind |-> "clear", trimmedAwb |-> trimmedAwb,
     awbList |-> <<>>, awbMap |-> EmptyMap, delhiveryPrefixMap |-> EmptyMap]

\* if (ref.current) clearTimeout(ref.current)
clearIfSet(ts, ref) == IF ref # NULL THEN clearTimeout(ts, ref) ELSE ts

\* handleAwbInputChange without clearTimeout(verificationDebounceTimerRef)
handleAwbInputChange_KeepsDebounce(newAwb) ==
    /\ mounted
    /\ LET trimmedAwb == trim(newAwb)
           remaining == clearIfSet(timers, clearInputTimerRef)
           id == newTimerId(remaining)
       IN  /\ currentAwb' = newAwb
           /\ verificationStatus' = "idle"
           /\ clearInputTimerRef' = NULL
           /\ IF Len(trimmedAwb) >= MinAwbLength /\ Len(awbList) > 0
              THEN /\ isVerifying' = TRUE
                   /\ timers' = remaining \cup {DebounceTimer(id, trimmedAwb)}
                   /\ verificationDebounceTimerRef' = id
              ELSE /\ isVerifying' = FALSE
                   /\ timers' = remaining
                   /\ UNCHANGED verificationDebounceTimerRef
    /\ UNCHANGED resumeVars
    /\ UNCHANGED rvVars
    /\ UNCHANGED storeVars
    /\ UNCHANGED << awbList, awbMap, delhiveryPrefixMap, fileName,
                    selectedAwbs, readers, uploads, mounted, filters >>
    /\ report' = NoReport
    /\ toast' = NoToast

\* handleAwbInputChange without clearTimeout(clearInputTimerRef)
handleAwbInputChange_KeepsClearInput(newAwb) ==
    /\ mounted
    /\ LET trimmedAwb == trim(newAwb)
           remaining == clearIfSet(timers, verificationDebounceTimerRef)
           id == newTimerId(remaining)
       IN  /\ currentAwb' = newAwb
           /\ verificationStatus' = "idle"
           /\ clearInputTimerRef' = NULL
           /\ IF Len(trimmedAwb) >= MinAwbLength /\ Len(awbList) > 0
              THEN /\ isVerifying' = TRUE
                   /\ timers' = remaining \cup {DebounceTimer(id, trimmedAwb)}
                   /\ verificationDebounceTimerRef' = id
              ELSE /\ isVerifying' = FALSE
                   /\ timers' = remaining
                   /\ UNCHANGED verificationDebounceTimerRef
    /\ UNCHANGED resumeVars
    /\ UNCHANGED rvVars
    /\ UNCHANGED storeVars
    /\ UNCHANGED << awbList, awbMap, delhiveryPrefixMap, fileName,
                    selectedAwbs, readers, uploads, mounted, filters >>
    /\ report' = NoReport
    /\ toast' = NoToast

\* ------------------------------------------------------------------------
\* Keystroke: handleAwbInputChange
\* ------------------------------------------------------------------------
handleAwbInputChange(newAwb) ==
    /\ mounted
    /\ LET trimmedAwb == trim(newAwb)
           remaining == clearIfSet(clearIfSet(timers, clearInputTimerRef),
                                   verificationDebounceTimerRef)
           id == newTimerId(remaining)
       IN  /\ currentAwb' = newAwb
           /\ verificationStatus' = "idle"
           /\ clearInputTimerRef' = NULL
           /\ IF Len(trimmedAwb) >= MinAwbLength /\ Len(awbList) > 0
              THEN /\ isVerifying' = TRUE
                   /\ timers' = remaining \cup {DebounceTimer(id, trimmedAwb)}
                   /\ verificationDebounceTimerRef' = id
              ELSE /\ isVerifying' = FALSE
                   /\ timers' = remaining
                   /\ UNCHANGED verificationDebounceTimerRef
    /\ UNCHANGED resumeVars
    /\ UNCHANGED rvVars
    /\ UNCHANGED storeVars
    /\ UNCHANGED << awbList, awbMap, delhiveryPrefixMap, fileName,
                    selectedAwbs, readers, uploads, mounted, filters >>
    /\ report' = NoReport
    /\ toast' = NoToast

\* ------------------------------------------------------------------------
\* The debounce callback (setTimeout(..., 50) in handleAwbInputChange)
\* ------------------------------------------------------------------------
SeqRange(q) == { q[k] : k \in 1..Len(q) }

\* positions that verifyAwb, as captured by the callback, reports
foundIndicesOf(t) == verifyAwb(t.awbMap, t.delhiveryPrefixMap, t.trimmedAwb)

\* matched positions the forEach flips: not yet received in the captured list
flippedOf(t) ==
    { i \in SeqRange(foundIndicesOf(t)) \cap (1..Len(t.awbList)) :
        ~t.awbList[i].received }

\* updatedList after the forEach
updatedListOf(t) ==
    [i \in 1..Len(t.awbList) |->
        IF i \in flippedOf(t)
        THEN [t.awbList[i] EXCEPT !.received = TRUE]
        ELSE t.awbList[i]]

\* updatedList[index] is undefined: reading .received throws a TypeError
callbackThrows(t) ==
    \E i \in SeqRange(foundIndicesOf(t)) : i > Len(t.awbList)

\* currentStatus at the end of the callback
currentStatusOf(t) ==
    IF Len(foundIndicesOf(t)) = 0 THEN "error"
    ELSE IF flippedOf(t) # {} THEN "success"
    ELSE "info"

\* debounceCallback scheduling the auto-clear timer after every result
debounceCallback_AlwaysAutoClear(t) ==
    /\ t \in debounceTimers
    /\ IF callbackThrows(t)
       THEN /\ timers' = timers \ {t}
            /\ toast' = NoToast
            /\ UNCHANGED << awbList, currentAwb, verificationStatus,
                            isVerifying, clearInputTimerRef >>
       ELSE LET currentStatus == currentStatusOf(t)
                rest == timers \ {t}
                cleared == clearIfSet(rest, clearInputTimerRef)
                id == newTimerId(cleared)
            IN  /\ IF currentStatus = "success"
                   THEN /\ awbList' = updatedListOf(t)
                        /\ currentAwb' = <<>>
                        /\ toast' = [title |-> "Verified",
                                         verified |-> Cardinality(flippedOf(t)),
                                         total |-> Len(foundIndicesOf(t))]
                   ELSE /\ toast' = NoToast
                        /\ UNCHANGED << awbList, currentAwb >>
                /\ verificationStatus' = currentStatus
                /\ timers' = cleared \cup {ClearInputTimer(id, t.trimmedAwb)}
                /\ clearInputTimerRef' = id
                /\ isVerifying' = FALSE
    /\ UNCHANGED resumeVars
    /\ UNCHANGED rvVars
    /\ UNCHANGED storeVars
    /\ UNCHANGED << awbMap, delhiveryPrefixMap, fileName, selectedAwbs,
                    verificationDebounceTimerRef, readers, uploads, mounted, filters >>
    /\ report' = NoReport

debounceCallback(t) ==
    /\ t \in debounceTimers
    /\ IF callbackThrows(t)
       THEN /\ timers' = timers \ {t}
            /\ toast' = NoToast
            /\ UNCHANGED << awbList, currentAwb, verificationStatus,
                            isVerifying, clearInputTimerRef >>
       ELSE LET currentStatus == currentStatusOf(t)
                rest == timers \ {t}
                cleared == clearIfSet(rest, clearInputTimerRef)
                id == newTimerId(cleared)
            IN  /\ IF currentStatus = "success"
                   THEN /\ awbList' = updatedListOf(t)
                        /\ currentAwb' = <<>>
                        /\ toast' = [title |-> "Verified",
                                         verified |-> Cardinality(flippedOf(t)),
                                         total |-> Len(foundIndicesOf(t))]
                   ELSE /\ toast' = NoToast
                        /\ UNCHANGED << awbList, currentAwb >>
                /\ verificationStatus' = currentStatus
                /\ IF currentStatus \in {"error", "info"}
                   THEN /\ timers' = cleared \cup {ClearInputTimer(id, t.trimmedAwb)}
                        /\ clearInputTimerRef' = id
                   ELSE /\ timers' = rest
                        /\ UNCHANGED clearInputTimerRef
                /\ isVerifying' = FALSE
    /\ UNCHANGED resumeVars
    /\ UNCHANGED rvVars
    /\ UNCHANGED storeVars
    /\ UNCHANGED << awbMap, delhiveryPrefixMap, fileName, selectedAwbs,
                    verificationDebounceTimerRef, readers, uploads, mounted, filters >>
    /\ report' = NoReport

\* clearInputCallback without setVerificationStatus('idle')
clearInputCallback_KeepsStatus(t) ==
    /\ t \in clearInputTimers
    /\ IF trim(currentAwb) = t.trimmedAwb
       THEN currentAwb' = <<>>
       ELSE UNCHANGED currentAwb
    /\ UNCHANGED verificationStatus
    /\ clearInputTimerRef' = NULL
    /\ timers' = timers \ {t}
    /\ UNCHANGED resumeVars
    /\ UNCHANGED rvVars
    /\ UNCHANGED storeVars
    /\ UNCHANGED << awbList, awbMap, delhiveryPrefixMap, fileName, isVerifying,
                    selectedAwbs, verificationDebounceTimerRef, readers,
                    uploads, mounted, filters >>
    /\ report' = NoReport
    /\ toast' = NoToast

\* ------------------------------------------------------------------------
\* The auto-clear callback (setTimeout(..., 5000) in the debounce callback)
\* ------------------------------------------------------------------------
clearInputCallback(t) ==
    /\ t \in clearInputTimers
    /\ IF trim(currentAwb) = t.trimmedAwb
       THEN /\ currentAwb' = <<>>
            /\ verificationStatus' = "idle"
       ELSE UNCHANGED << currentAwb, verificationStatus >>
    /\ clearInputTimerRef' = NULL
    /\ timers' = timers \ {t}
    /\ UNCHANGED resumeVars
    /\ UNCHANGED rvVars
    /\ UNCHANGED storeVars
    /\ UNCHANGED << awbList, awbMap, delhiveryPrefixMap, fileName, isVerifying,
                    selectedAwbs, verificationDebounceTimerRef, readers,
                    uploads, mounted, filters >>
    /\ report' = NoReport
    /\ toast' = NoToast

\* ------------------------------------------------------------------------
\* Upload: handleFileUpload, reader.onload, reader.onerror
\* ------------------------------------------------------------------------
handleFileUpload(file) ==
    /\ mounted
    /\ uploads < MaxUploads
    /\ BagCardinality(readers) < MaxReaders
    /\ awbList' = <<>>
    /\ awbMap' = EmptyMap
    /\ delhiveryPrefixMap' = EmptyMap
    /\ currentAwb' = <<>>
    /\ verificationStatus' = "idle"
    /\ selectedAwbs' = {}
    /\ timers' = clearIfSet(clearIfSet(timers, verificationDebounceTimerRef),
                            clearInputTimerRef)
    /\ fileName' = file.name
    /\ readers' = readers (+) SetToBag({file})
    /\ uploads' = uploads + 1
    /\ toast' = NoToast
    /\ filters' = NoFilters
    /\ report' = NoReport
    /\ UNCHANGED resumeVars
    /\ UNCHANGED rvVars
    /\ UNCHANGED storeVars
    /\ UNCHANGED << isVerifying, verificationDebounceTimerRef,
                    clearInputTimerRef, mounted >>

\* reader.onload, try block completed: extraction produced file.data
onloadExtracted(file) ==
    IF Len(file.data) = 0
    THEN /\ toast' = Toast("No Data Found")
         /\ fileName' = NoFileName
         /\ UNCHANGED << awbList, awbMap, delhiveryPrefixMap >>
    ELSE /\ awbList' = file.data
         /\ awbMap' = newAwbMap(file.data)
         /\ delhiveryPrefixMap' = newDelhiveryPrefixMap(file.data)
         /\ toast' = Toast("File Processed Successfully")
         /\ UNCHANGED fileName

\* reader.onload, catch block: a header check threw
onloadCatch ==
    /\ toast' = Toast("File Processing Error")
    /\ fileName' = NoFileName
    /\ awbList' = <<>>
    /\ UNCHANGED << awbMap, delhiveryPrefixMap >>

readerOnload(file) ==
    /\ BagIn(file, readers)
    /\ file.kind \in {"ok", "badheader"}
    /\ readers' = readers (-) SetToBag({file})
    /\ IF mounted
       THEN IF file.kind = "ok"
            THEN onloadExtracted(file)
            ELSE onloadCatch
       ELSE \* state setters of an unmounted component do nothing
            /\ toast' = Toast(IF file.kind = "badheader"
                                  THEN "File Processing Error"
                                  ELSE IF Len(file.data) = 0
                                       THEN "No Data Found"
                                       ELSE "File Processed Successfully")
            /\ UNCHANGED << awbList, awbMap, delhiveryPrefixMap, fileName >>
    /\ UNCHANGED resumeVars
    /\ UNCHANGED rvVars
    /\ UNCHANGED storeVars
    /\ UNCHANGED << currentAwb, isVerifying, verificationStatus, selectedAwbs,
                    timers, verificationDebounceTimerRef, clearInputTimerRef,
                    uploads, mounted, filters >>
    /\ report' = NoReport

readerOnerror(file) ==
    /\ BagIn(file, readers)
    /\ file.kind = "readerror"
    /\ readers' = readers (-) SetToBag({file})
    /\ toast' = Toast("File Reading Error")
    /\ fileName' = IF mounted THEN NoFileName ELSE fileName
    /\ UNCHANGED resumeVars
    /\ UNCHANGED rvVars
    /\ UNCHANGED storeVars
    /\ UNCHANGED << awbList, awbMap, delhiveryPrefixMap, currentAwb,
                    isVerifying, verificationStatus, selectedAwbs, timers,
                    verificationDebounceTimerRef, clearInputTimerRef,
                    uploads, mounted, filters >>
    /\ report' = NoReport

\* ------------------------------------------------------------------------
\* Extraction of the records from the sheet (the row loop of reader.onload)
\* ------------------------------------------------------------------------
\* Rows are numbered from 1 here and from 0 in the code. A row carries the
\* cells of column A (product details), B (suborder id), D (return shipping
\* fee) and F (tracking number); a cell is null, a string or a number, as
\* sheet_to_json({ header: 1, raw: true, defval: null }) hands it over.
Null == [t |-> "z", v |-> <<>>]

Str(v) == [t |-> "s", v |-> v]

Num(n) == [t |-> "n", v |-> n]

DigitChars == <<"0", "1", "2", "3", "4", "5", "6", "7", "8", "9">>

\* Number.prototype.toString on a non-negative integer
RECURSIVE decimal(_)
decimal(n) ==
    IF n < 10
    THEN <<DigitChars[n + 1]>>
    ELSE decimal(n \div 10) \o <<DigitChars[(n % 10) + 1]>>

\* cell?.toString() ?? fallback
toStringOr(cell, fallback) ==
    CASE cell.t = "z" -> fallback
      [] cell.t = "s" -> cell.v
      [] cell.t = "n" -> decimal(cell.v)

\* the truthiness of a cell value: null, '' and 0 are falsy
truthy(cell) ==
    CASE cell.t = "z" -> FALSE
      [] cell.t = "s" -> cell.v # <<>>
      [] cell.t = "n" -> cell.v # 0

\* /\d/.test(s)
hasDigit(s) == \E i \in 1..Len(s) : s[i] \in Digits

\* Number(value) === 0 on a number, or on a string of the model's alphabet:
\* a string converts to 0 when, trimmed, it is empty or made of zeros
numberIsZero(cell) ==
    CASE cell.t = "n" -> cell.v = 0
      [] cell.t = "s" -> \A i \in 1..Len(trim(cell.v)) : trim(cell.v)[i] = "0"
      [] OTHER -> FALSE

\* s.indexOf(sub), 0-based, -1 when absent
indexOf(s, sub) ==
    IF includes(s, sub)
    THEN CHOOSE i \in 0..(Len(s) - Len(sub)) :
            /\ SubSeq(s, i + 1, i + Len(sub)) = sub
            /\ \A j \in 0..(i - 1) : SubSeq(s, j + 1, j + Len(sub)) # sub
    ELSE -1

\* s.substring(start)
substring(s, start) == SubSeq(s, start + 1, Len(s))

\* the element of a singleton. TLC evaluates a LET definition at each of its
\* uses; in { e : x \in {d} } it evaluates d once, which keeps the nested
\* string operations below linear
the(S) == CHOOSE x \in S : TRUE

\* lowerContent.indexOf(lowerKeyword)
keywordIndexOf(cellContent, keyword) ==
    the({ indexOf(lowerContent, lowerKeyword) :
            lowerContent \in {toLowerCase(cellContent)},
            lowerKeyword \in {trim(toLowerCase(keyword))} })

\* if (value.startsWith(':')) value = value.substring(1).trim()
stripColon(value) ==
    IF value # <<>> /\ Head(value) = ":" THEN trim(Tail(value)) ELSE value

\* value || '-'
orDash(value) == IF value = <<>> THEN Dash ELSE value

\* the value that follows the keyword found at keywordIndex
valueAfter(cellContent, keyword, keywordIndex) ==
    the({ orDash(stripColon(value)) :
            value \in {trim(substring(cellContent,
                                      keywordIndex + Len(keyword)))} })

extractValue(cellContent, keyword) ==
    the({ IF keywordIndex # -1
          THEN valueAfter(cellContent, keyword, keywordIndex)
          ELSE <<>> :
            keywordIndex \in {keywordIndexOf(cellContent, keyword)} })

\* a || b on strings
orElse(a, b) == IF a # <<>> THEN a ELSE b

KeySkuId == <<"S", "K", "U", " ", "I", "D", ":">>
KeySku == <<"S", "K", "U", ":">>
KeyCategory == <<"C", "a", "t", "e", "g", "o", "r", "y", ":">>
KeyQty == <<"Q", "t", "y", ":">>
KeyQuantity == <<"Q", "u", "a", "n", "t", "i", "t", "y", ":">>
KeySize == <<"S", "i", "z", "e", ":">>

\* the four extractions tried on one cell of the span
extractedSku(cellValue) ==
    orElse(extractValue(cellValue, KeySkuId), extractValue(cellValue, KeySku))

extractedCategory(cellValue) == extractValue(cellValue, KeyCategory)

extractedQty(cellValue) ==
    orElse(extractValue(cellValue, KeyQty),
           extractValue(cellValue, KeyQuantity))

extractedSize(cellValue) == extractValue(cellValue, KeySize)

\* if (extracted && extracted !== '-')
successful(extracted) == extracted # <<>> /\ extracted # Dash

\* let sku = '-' ... let foundSize = false; visited: the rows the loop has
\* entered
NothingFound ==
    [sku |-> Dash, category |-> Dash, qty |-> Dash, size |-> Dash,
     foundSku |-> FALSE, foundCategory |-> FALSE, foundQty |-> FALSE,
     foundSize |-> FALSE, visited |-> {}]

\* the body of the scan loop with a later row overwriting a SKU already found
scanCell_LastSkuWins(found, cellValue) ==
    LET withSku ==
            IF successful(extractedSku(cellValue))
            THEN [found EXCEPT !.sku = extractedSku(cellValue),
                               !.foundSku = TRUE]
            ELSE found
        withCategory ==
            IF ~withSku.foundCategory
               /\ successful(extractedCategory(cellValue))
            THEN [withSku EXCEPT !.category = extractedCategory(cellValue),
                                 !.foundCategory = TRUE]
            ELSE withSku
        withQty ==
            IF ~withCategory.foundQty /\ successful(extractedQty(cellValue))
            THEN [withCategory EXCEPT !.qty = extractedQty(cellValue),
                                      !.foundQty = TRUE]
            ELSE withCategory
    IN  IF ~withQty.foundSize /\ successful(extractedSize(cellValue))
        THEN [withQty EXCEPT !.size = extractedSize(cellValue),
                             !.foundSize = TRUE]
        ELSE withQty

\* one pass of the body of the scan loop on a cell that is not skipped
scanCell(found, cellValue) ==
    LET withSku ==
            IF ~found.foundSku /\ successful(extractedSku(cellValue))
            THEN [found EXCEPT !.sku = extractedSku(cellValue),
                               !.foundSku = TRUE]
            ELSE found
        withCategory ==
            IF ~withSku.foundCategory
               /\ successful(extractedCategory(cellValue))
            THEN [withSku EXCEPT !.category = extractedCategory(cellValue),
                                 !.foundCategory = TRUE]
            ELSE withSku
        withQty ==
            IF ~withCategory.foundQty /\ successful(extractedQty(cellValue))
            THEN [withCategory EXCEPT !.qty = extractedQty(cellValue),
                                      !.foundQty = TRUE]
            ELSE withCategory
    IN  IF ~withQty.foundSize /\ successful(extractedSize(cellValue))
        THEN [withQty EXCEPT !.size = extractedSize(cellValue),
                             !.foundSize = TRUE]
        ELSE withQty

allFound(found) ==
    found.foundSku /\ found.foundCategory /\ found.foundQty /\ found.foundSize

\* the loop has entered row rowIdx
enterRow(found, rowIdx) == [found EXCEPT !.visited = @ \cup {rowIdx}]

\* one iteration of the scan loop: the two 'continue' tests, then the body
scanRow(rows, rowIdx, found) ==
    IF rowIdx > Len(rows) \/ ~truthy(rows[rowIdx].A)
    THEN enterRow(found, rowIdx)
    ELSE the({ IF cellValue = <<>>
               THEN enterRow(found, rowIdx)
               ELSE scanCell(enterRow(found, rowIdx), cellValue) :
                 cellValue \in {trim(toStringOr(rows[rowIdx].A, <<>>))} })

\* for (rowIdx = shipmentStartRow; rowIdx <= shipmentEndRow; rowIdx++), left
\* by the break once all four are found (which no skipped row can bring about)
RECURSIVE scanSpan(_, _, _, _)
scanSpan(rows, rowIdx, shipmentEndRow, found) ==
    IF rowIdx > shipmentEndRow
    THEN found
    ELSE the({ IF allFound(next)
               THEN next
               ELSE scanSpan(rows, rowIdx + 1, shipmentEndRow, next) :
                 next \in {scanRow(rows, rowIdx, found)} })

\* merges.find(m => m.s.c === suborderIdIndex && m.e.c === suborderIdIndex
\*                  && r >= m.s.r && r <= m.e.r), on the first such range
coveringMerges(sheet, r) ==
    { k \in 1..Len(sheet.merges) :
        /\ sheet.merges[k].c = "B"
        /\ r >= sheet.merges[k].s
        /\ r <= sheet.merges[k].e }

\* the span with every invalid range replaced by the candidate row alone
shipmentSpan_WholeRangeOrRow(sheet, headerRowIndex, r) ==
    IF coveringMerges(sheet, r) = {}
    THEN [start |-> r, end |-> r]
    ELSE LET mergeInfo ==
                 sheet.merges[CHOOSE k \in coveringMerges(sheet, r) :
                                 \A l \in coveringMerges(sheet, r) : k <= l]
         IN  IF mergeInfo.s <= headerRowIndex \/ mergeInfo.e > Len(sheet.rows)
             THEN [start |-> r, end |-> r]
             ELSE [start |-> mergeInfo.s, end |-> mergeInfo.e]

\* shipmentStartRow and shipmentEndRow of the candidate row r
shipmentSpan(sheet, headerRowIndex, r) ==
    IF coveringMerges(sheet, r) = {}
    THEN [start |-> r, end |-> r]
    ELSE LET mergeInfo ==
                 sheet.merges[CHOOSE k \in coveringMerges(sheet, r) :
                                 \A l \in coveringMerges(sheet, r) : k <= l]
             shipmentStartRow ==
                 IF mergeInfo.s <= headerRowIndex
                    \/ mergeInfo.s > Len(sheet.rows)
                 THEN r
                 ELSE mergeInfo.s
             shipmentEndRow ==
                 IF mergeInfo.e < shipmentStartRow
                    \/ mergeInfo.e > Len(sheet.rows)
                 THEN r
                 ELSE mergeInfo.e
         IN  [start |-> shipmentStartRow, end |-> shipmentEndRow]

RTO == "RTO"

CustomerReturn == "Customer Return"

\* returnTypeValue from the fee cell of the span's first row
returnTypeOf(shippingFeeValueRaw) ==
    IF shippingFeeValueRaw.t # "z"
    THEN IF \/ numberIsZero(shippingFeeValueRaw)
            \/ trim(toStringOr(shippingFeeValueRaw, <<>>)) = <<"0">>
         THEN RTO
         ELSE CustomerReturn
    ELSE CustomerReturn

\* formatValue on a cell that is not a date
formatValue(cell) ==
    CASE cell.t = "z" -> Dash
      [] cell.t = "s" -> IF trim(cell.v) = <<>> THEN Dash ELSE trim(cell.v)
      [] cell.t = "n" -> trim(decimal(cell.v))

\* potentialAwb of row r
potentialAwbOf(sheet, r) == trim(toStringOr(sheet.rows[r].F, <<>>))

\* the row below the candidate holds a truthy cell in column F
readsCourier(sheet, r) ==
    r + 1 <= Len(sheet.rows) /\ truthy(sheet.rows[r + 1].F)

\* newItem of the candidate row r, with the row, span and scan it came from
newItemOf(sheet, headerRowIndex, r) ==
    the({ [r |-> r,
           span |-> span,
           visited |-> found.visited,
           item |-> [awb |-> potentialAwbOf(sheet, r),
                     courierPartner |->
                         IF readsCourier(sheet, r)
                         THEN trim(toStringOr(sheet.rows[r + 1].F, Unknown))
                         ELSE Unknown,
                     suborderId |-> formatValue(sheet.rows[span.start].B),
                     sku |-> found.sku,
                     category |-> found.category,
                     qty |-> found.qty,
                     size |-> found.size,
                     returnType |-> returnTypeOf(sheet.rows[span.start].D),
                     received |-> FALSE]] :
            span \in {shipmentSpan(sheet, headerRowIndex, r)},
            found \in { the({ scanSpan(sheet.rows, span.start, span.end,
                                       NothingFound) :
                               span \in {shipmentSpan(sheet, headerRowIndex,
                                                      r)} }) } })

\* for (let r = headerRowIndex + 1; r < jsonData.length; r++)
RECURSIVE rowLoop(_, _, _, _, _)
rowLoop(sheet, headerRowIndex, r, processedRows, extracted) ==
    IF r > Len(sheet.rows)
    THEN extracted
    ELSE IF r \in processedRows
         THEN rowLoop(sheet, headerRowIndex, r + 1, processedRows, extracted)
         ELSE IF potentialAwbOf(sheet, r) # <<>>
                 /\ hasDigit(potentialAwbOf(sheet, r))
              THEN rowLoop(sheet, headerRowIndex, r + 1,
                           processedRows \cup {r}
                               \cup (IF readsCourier(sheet, r)
                                     THEN {r + 1}
                                     ELSE {}),
                           Append(extracted,
                                  newItemOf(sheet, headerRowIndex, r)))
              ELSE rowLoop(sheet, headerRowIndex, r + 1,
                           processedRows \cup {r}, extracted)

AwbNumberMarker == <<"a", "w", "b", " ", "n", "u", "m", "b", "e", "r">>

\* typeof cell === 'string' && cell.toLowerCase().includes('awb number')
hasMarker(cell) ==
    cell.t = "s" /\ includes(toLowerCase(cell.v), AwbNumberMarker)

\* jsonData.findIndex(row => row.some(...)), 0 when no row has the marker
headerRowIndexOf(sheet) ==
    LET withMarker == { r \in 1..Len(sheet.rows) :
                          \E c \in {"A", "B", "D", "F"} :
                              hasMarker(sheet.rows[r][c]) }
    IN  IF withMarker = {}
        THEN 0
        ELSE CHOOSE r \in withMarker : \A q \in withMarker : r <= q

\* one of the two header checks throws
headerCheckThrows(sheet) ==
    \/ headerRowIndexOf(sheet) = 0
    \/ ~includes(trim(toLowerCase(
            toStringOr(sheet.rows[headerRowIndexOf(sheet)].F, <<>>))),
                 AwbNumberMarker)

\* the candidate rows of the sheet in order, each with its newItem
extractionOf(sheet) ==
    rowLoop(sheet, headerRowIndexOf(sheet), headerRowIndexOf(sheet) + 1,
            {}, <<>>)

\* extractedData
extractedDataOf(sheet) ==
    the({ [i \in 1..Len(extraction) |-> extraction[i].item] :
            extraction \in {extractionOf(sheet)} })

\* reader.onload on a file whose sheet is parsed by the row loop
readerOnloadSheet(file) ==
    /\ BagIn(file, readers)
    /\ file.kind = "sheet"
    /\ readers' = readers (-) SetToBag({file})
    /\ IF mounted
       THEN IF headerCheckThrows(file.sheet)
            THEN onloadCatch
            ELSE \E extractedData \in {extractedDataOf(file.sheet)} :
                     onloadExtracted([data |-> extractedData])
       ELSE /\ toast' = Toast(IF headerCheckThrows(file.sheet)
                                  THEN "File Processing Error"
                                  ELSE IF Len(extractedDataOf(file.sheet)) = 0
                                       THEN "No Data Found"
                                       ELSE "File Processed Successfully")
            /\ UNCHANGED << awbList, awbMap, delhiveryPrefixMap, fileName >>
    /\ UNCHANGED resumeVars
    /\ UNCHANGED rvVars
    /\ UNCHANGED storeVars
    /\ UNCHANGED << currentAwb, isVerifying, verificationStatus, selectedAwbs,
                    timers, verificationDebounceTimerRef, clearInputTimerRef,
                    uploads, mounted, filters >>
    /\ report' = NoReport

\* ------------------------------------------------------------------------
\* Pending view, selection and the bulk "mark selected" operation
\* ------------------------------------------------------------------------
\* check = (value, filter) => !filter || (value && value.toLowerCase()
\*                                  .includes(filter.toLowerCase()))
check(value, filter) ==
    \/ filter = <<>>
    \/ /\ value # <<>>
       /\ includes(toLowerCase(value), toLowerCase(filter))

\* checkSet without the 'no restriction' reading of the empty set
checkSet_EmptyRejects(value, set) ==
    /\ value # <<>>
    /\ value \in set

\* checkSet = (value, set) => set.size === 0 || (value && set.has(value))
checkSet(value, set) ==
    \/ set = {}
    \/ /\ value # <<>>
       /\ value \in set

\* the predicate of awbList.filter in missingAwbs under the filters f, on the
\* tracking-number text filter and the courier inclusion set
passes(item, f) ==
    /\ ~item.received
    /\ check(item.awb, f.awb)
    /\ checkSet(item.courierPartner, f.courierPartner)

passesFilters(item) == passes(item, filters)

\* useMemo(() => awbList.filter(...), [awbList, filters])
missingAwbs == SelectSeq(awbList, passesFilters)

\* setFilters(prev => ({ ...prev, [column]: value })); no element of the
\* rendered page calls it, so the text filters keep their initial value
handleTextFilterChange(column, value) ==
    /\ mounted
    /\ filters' = [filters EXCEPT ![column] = value]
    /\ UNCHANGED resumeVars
    /\ UNCHANGED rvVars
    /\ UNCHANGED storeVars
    /\ UNCHANGED << awbList, awbMap, delhiveryPrefixMap, currentAwb, fileName,
                    isVerifying, verificationStatus, selectedAwbs, timers,
                    verificationDebounceTimerRef, clearInputTimerRef, readers,
                    uploads, mounted >>
    /\ report' = NoReport
    /\ toast' = NoToast

\* a value of a filter popover is ticked or unticked
handleCheckboxFilterChange(column, value, checked) ==
    /\ mounted
    /\ filters' = [filters EXCEPT ![column] = IF checked
                                              THEN @ \cup {value}
                                              ELSE @ \ {value}]
    /\ UNCHANGED resumeVars
    /\ UNCHANGED rvVars
    /\ UNCHANGED storeVars
    /\ UNCHANGED << awbList, awbMap, delhiveryPrefixMap, currentAwb, fileName,
                    isVerifying, verificationStatus, selectedAwbs, timers,
                    verificationDebounceTimerRef, clearInputTimerRef, readers,
                    uploads, mounted >>
    /\ report' = NoReport
    /\ toast' = NoToast

clearFilters ==
    /\ mounted
    /\ filters' = NoFilters
    /\ UNCHANGED resumeVars
    /\ UNCHANGED rvVars
    /\ UNCHANGED storeVars
    /\ UNCHANGED << awbList, awbMap, delhiveryPrefixMap, currentAwb, fileName,
                    isVerifying, verificationStatus, selectedAwbs, timers,
                    verificationDebounceTimerRef, clearInputTimerRef, readers,
                    uploads, mounted >>
    /\ report' = NoReport
    /\ toast' = NoToast

\* a row checkbox of the pending table is toggled
handleSelect(awb, isSelected) ==
    /\ mounted
    /\ selectedAwbs' = IF isSelected
                       THEN selectedAwbs \cup {awb}
                       ELSE selectedAwbs \ {awb}
    /\ UNCHANGED resumeVars
    /\ UNCHANGED rvVars
    /\ UNCHANGED storeVars
    /\ UNCHANGED << awbList, awbMap, delhiveryPrefixMap, currentAwb, fileName,
                    isVerifying, verificationStatus, timers,
                    verificationDebounceTimerRef, clearInputTimerRef, readers,
                    uploads, mounted, filters >>
    /\ report' = NoReport
    /\ toast' = NoToast

\* the header checkbox of the pending table is toggled
handleSelectAll(checked) ==
    /\ mounted
    /\ Len(missingAwbs) > 0
    /\ selectedAwbs' = IF checked
                       THEN { missingAwbs[k].awb : k \in 1..Len(missingAwbs) }
                       ELSE {}
    /\ UNCHANGED resumeVars
    /\ UNCHANGED rvVars
    /\ UNCHANGED storeVars
    /\ UNCHANGED << awbList, awbMap, delhiveryPrefixMap, currentAwb, fileName,
                    isVerifying, verificationStatus, timers,
                    verificationDebounceTimerRef, clearInputTimerRef, readers,
                    uploads, mounted, filters >>
    /\ report' = NoReport
    /\ toast' = NoToast

\* isAllSelected as rendered on the header checkbox
isAllSelected ==
    /\ Len(missingAwbs) > 0
    /\ \A k \in 1..Len(missingAwbs) : missingAwbs[k].awb \in selectedAwbs

\* the map of handleMarkSelectedAsReceived marking every record of the list
markSelected_EveryRecord(list, selected) ==
    [i \in 1..Len(list) |-> [list[i] EXCEPT !.received = TRUE]]

\* awbList.map(item => selectedAwbs.has(item.awb) ? {...item, received: true} : item)
markSelected(list, selected) ==
    [i \in 1..Len(list) |->
        IF list[i].awb \in selected
        THEN [list[i] EXCEPT !.received = TRUE]
        ELSE list[i]]

handleMarkSelectedAsReceived ==
    /\ mounted
    /\ IF selectedAwbs = {}
       THEN /\ toast' = NoToast
            /\ UNCHANGED << awbList, selectedAwbs >>
       ELSE /\ awbList' = markSelected(awbList, selectedAwbs)
            /\ toast' = [title |-> "Items Marked as Received",
                             verified |-> Cardinality(selectedAwbs),
                             total |-> 0]
            /\ selectedAwbs' = {}
    /\ UNCHANGED resumeVars
    /\ UNCHANGED rvVars
    /\ UNCHANGED storeVars
    /\ UNCHANGED << awbMap, delhiveryPrefixMap, currentAwb, fileName,
                    isVerifying, verificationStatus, timers,
                    verificationDebounceTimerRef, clearInputTimerRef, readers,
                    uploads, mounted, filters >>
    /\ report' = NoReport

\* ------------------------------------------------------------------------
\* Report
\* ------------------------------------------------------------------------
\* awbList.map(item => ({ 'AWB Number': ..., 'Status': ... })), on the columns
\* the model carries
reportData(list) ==
    [i \in 1..Len(list) |->
        ("AWB Number" :> list[i].awb)
        @@ ("Courier Partner" :> IF list[i].courierPartner = <<>>
                                 THEN Unknown
                                 ELSE list[i].courierPartner)
        @@ ("Suborder ID" :> IF list[i].suborderId = "" THEN "-"
                             ELSE list[i].suborderId)
        @@ ("Status" :> IF list[i].received THEN "Done" ELSE "Pending")]

\* the fill loop with the fill given to every row
highlightRows_EveryRow(rows, statusKey) ==
    [R \in 1..Len(rows) |-> [cells |-> rows[R], fill |-> TRUE]]

\* json_to_sheet lays the rows out in order below a header row made of the
\* keys of the objects (the cells of a row are kept here under their column
\* name); the loop over the data rows gives the solid fill to the cells of
\* every row whose cell in the column named statusKey reads 'Pending'
highlightRows(rows, statusKey) ==
    [R \in 1..Len(rows) |->
        [cells |-> rows[R], fill |-> rows[R][statusKey] = "Pending"]]

\* handleDownloadReport with a catch block that drops the list
handleDownloadReport_FailureDropsList(writeFails) ==
    /\ mounted
    /\ IF Len(awbList) = 0
       THEN /\ toast' = Toast("No Data")
            /\ report' = NoReport
            /\ UNCHANGED awbList
       ELSE IF writeFails
            THEN /\ toast' = Toast("Report Generation Error")
                 /\ report' = NoReport
                 /\ awbList' = <<>>
            ELSE /\ toast' = Toast("Report Downloaded")
                 /\ report' = highlightRows(reportData(awbList), "Status")
                 /\ UNCHANGED awbList
    /\ UNCHANGED resumeVars
    /\ UNCHANGED rvVars
    /\ UNCHANGED storeVars
    /\ UNCHANGED << awbMap, delhiveryPrefixMap, currentAwb, fileName,
                    isVerifying, verificationStatus, selectedAwbs, timers,
                    verificationDebounceTimerRef, clearInputTimerRef, readers,
                    uploads, mounted, filters >>

\* the download button; writeFails: building or writing the workbook throws
handleDownloadReport(writeFails) ==
    /\ mounted
    /\ IF Len(awbList) = 0
       THEN /\ toast' = Toast("No Data")
            /\ report' = NoReport
       ELSE IF writeFails
            THEN /\ toast' = Toast("Report Generation Error")
                 /\ report' = NoReport
            ELSE /\ toast' = Toast("Report Downloaded")
                 /\ report' = highlightRows(reportData(awbList), "Status")
    /\ UNCHANGED resumeVars
    /\ UNCHANGED rvVars
    /\ UNCHANGED storeVars
    /\ UNCHANGED << awbList, awbMap, delhiveryPrefixMap, currentAwb, fileName,
                    isVerifying, verificationStatus, selectedAwbs, timers,
                    verificationDebounceTimerRef, clearInputTimerRef, readers,
                    uploads, mounted, filters >>

\* ------------------------------------------------------------------------
\* The ResumeVerification page: upload of a report and 'Download Updated
\* Report'
\* ------------------------------------------------------------------------
\* XLSX.utils.sheet_to_json(worksheet): one object per data row, its values
\* keyed by the cells of the header row; the cell styles are not read
sheet_to_json(worksheet) ==
    [R \in 1..Len(worksheet) |-> worksheet[R].cells]

expectedHeaders == {"AWB Number", "Status"}

\* Object.keys(jsonData[0] || {})
actualHeaders(jsonData) ==
    IF Len(jsonData) = 0 THEN {} ELSE DOMAIN jsonData[1]

\* row[key] || fallback, on rows whose cells are never empty
cellOr(row, key, fallback) ==
    IF key \in DOMAIN row THEN row[key] ELSE fallback

\* jsonData.map(row => ({ awb: String(row['AWB Number'] || ''), ... }))
resumeExtractedData(jsonData) ==
    [i \in 1..Len(jsonData) |->
        [awb |-> cellOr(jsonData[i], "AWB Number", <<>>),
         courierPartner |-> cellOr(jsonData[i], "Courier Partner", Dash),
         suborderId |-> cellOr(jsonData[i], "Suborder ID", "-"),
         status |-> IF cellOr(jsonData[i], "Status", "") = "Done"
                    THEN "Done"
                    ELSE "Pending"]]

\* extractedData.forEach((item, index) => newAwbMap.set(item.awb.toLowerCase(),
\* index)): one position per key, the last one set
resumeNewAwbMap(extractedData) ==
    [key \in { toLowerCase(extractedData[i].awb) :
                 i \in 1..Len(extractedData) } |->
        CHOOSE i \in 1..Len(extractedData) :
            /\ toLowerCase(extractedData[i].awb) = key
            /\ \A j \in (i + 1)..Len(extractedData) :
                  toLowerCase(extractedData[j].awb) # key]

\* a report file is chosen in the upload card of the page
resumeHandleFileUpload(file) ==
    /\ BagCardinality(resumeReaders) < MaxResumeReads
    /\ reportList' = <<>>
    /\ resumeAwbMap' = EmptyMap
    /\ resumeCurrentAwb' = <<>>
    /\ resumeVerificationStatus' = "idle"
    /\ resumeSelectedAwbs' = {}
    /\ UNCHANGED << resumeIsVerifying, resumeTimers >>
    /\ resumeReaders' = resumeReaders (+) SetToBag({file})
    /\ toast' = NoToast
    /\ UNCHANGED rvVars
    /\ UNCHANGED storeVars
    /\ report' = NoReport
    /\ UNCHANGED << awbList, awbMap, delhiveryPrefixMap, currentAwb, fileName,
                    isVerifying, verificationStatus, selectedAwbs, timers,
                    verificationDebounceTimerRef, clearInputTimerRef, readers,
                    uploads, mounted, filters >>

\* reader.onload of the page
resumeReaderOnload(file) ==
    /\ BagIn(file, resumeReaders)
    /\ resumeReaders' = resumeReaders (-) SetToBag({file})
    /\ LET jsonData == sheet_to_json(file)
       IN  IF ~(expectedHeaders \subseteq actualHeaders(jsonData))
           THEN \* throw new Error("Invalid report file...") and the catch block
                /\ toast' = Toast("File Processing Error")
                /\ reportList' = <<>>
                /\ UNCHANGED resumeAwbMap
           ELSE IF Len(resumeExtractedData(jsonData)) = 0
                THEN /\ toast' = Toast("No Data Found")
                     /\ UNCHANGED << reportList, resumeAwbMap >>
                ELSE /\ reportList' = resumeExtractedData(jsonData)
                     /\ resumeAwbMap'
                          = resumeNewAwbMap(resumeExtractedData(jsonData))
                     /\ toast' = Toast("Report Loaded Successfully")
    /\ UNCHANGED << resumeCurrentAwb, resumeIsVerifying,
                    resumeVerificationStatus, resumeSelectedAwbs,
                    resumeTimers >>
    /\ UNCHANGED rvVars
    /\ UNCHANGED storeVars
    /\ report' = NoReport
    /\ UNCHANGED << awbList, awbMap, delhiveryPrefixMap, currentAwb, fileName,
                    isVerifying, verificationStatus, selectedAwbs, timers,
                    verificationDebounceTimerRef, clearInputTimerRef, readers,
                    uploads, mounted, filters >>

\* 'Download Updated Report': XLSX.utils.json_to_sheet(reportList), whose
\* header row is made of the keys of ReportItem
resumeHandleDownloadReport ==
    /\ IF Len(reportList) = 0
       THEN /\ toast' = Toast("No Data")
            /\ report' = NoReport
       ELSE /\ toast' = Toast("Report Downloaded")
            /\ report' = highlightRows(reportList, "status")
    /\ UNCHANGED resumeVars
    /\ UNCHANGED rvVars
    /\ UNCHANGED storeVars
    /\ UNCHANGED << awbList, awbMap, delhiveryPrefixMap, currentAwb, fileName,
                    isVerifying, verificationStatus, selectedAwbs, timers,
                    verificationDebounceTimerRef, clearInputTimerRef, readers,
                    uploads, mounted, filters >>

\* ------------------------------------------------------------------------
\* The ResumeVerification page: verification of typed numbers, selection
\* and bulk mark
\* ------------------------------------------------------------------------
\* the state of the indexed component, which no handler of this page touches
indexedVars == << awbList, awbMap, delhiveryPrefixMap, currentAwb, fileName,
                  isVerifying, verificationStatus, selectedAwbs, timers,
                  verificationDebounceTimerRef, clearInputTimerRef, readers,
                  uploads, mounted, filters >>

\* ReportItem as the upload of the page extracts it
ReportItem(awb, suborder, status) ==
    [awb |-> awb, courierPartner |-> Dash, suborderId |-> suborder,
     status |-> status]

\* verifyAwb of the page: awbMap.get(inputAwb.toLowerCase().trim()), NULL for
\* null; the positions of the model count from 1
resumeVerifyAwb(map, inputAwb) ==
    LET normalizedInput == trim(toLowerCase(inputAwb))
    IN  IF Len(normalizedInput) = 0 THEN NULL
        ELSE IF normalizedInput \in DOMAIN map THEN map[normalizedInput]
        ELSE NULL

\* the callback handed to setTimeout(..., 50): it closes over trimmedAwb and
\* over reportList and verifyAwb (hence awbMap) of the render that ran the
\* handler
ResumeDebounceTimer(trimmedAwb) ==
    [kind |-> "debounce", trimmedAwb |-> trimmedAwb, reportList |-> reportList,
     awbMap |-> resumeAwbMap]

\* the callback handed to setTimeout(..., 5000)
ResumeClearTimer(trimmedAwb) ==
    [kind |-> "clear", trimmedAwb |-> trimmedAwb, reportList |-> <<>>,
     awbMap |-> EmptyMap]

\* handleAwbInputChange of the page; both refs are cleared, and each ref
\* holds the only timer of its kind
resumeHandleAwbInputChange(newAwb) ==
    /\ resumeCurrentAwb' = newAwb
    /\ resumeVerificationStatus' = "idle"
    /\ LET trimmedAwb == trim(newAwb)
       IN  IF Len(trimmedAwb) >= MinAwbLength /\ Len(reportList) > 0
           THEN /\ resumeIsVerifying' = TRUE
                /\ resumeTimers' = { ResumeDebounceTimer(trimmedAwb) }
           ELSE /\ resumeIsVerifying' = FALSE
                /\ resumeTimers' = {}
    /\ UNCHANGED << reportList, resumeReaders, resumeAwbMap,
                    resumeSelectedAwbs >>
    /\ toast' = NoToast
    /\ report' = NoReport
    /\ UNCHANGED rvVars
    /\ UNCHANGED storeVars
    /\ UNCHANGED indexedVars

\* the 50 ms callback: one position from the map of its render, written into
\* the list of its render
resumeDebounceCallback(t) ==
    /\ t \in resumeTimers
    /\ t.kind = "debounce"
    /\ LET foundIndex == resumeVerifyAwb(t.awbMap, t.trimmedAwb)
           rest == { u \in resumeTimers : u.kind = "debounce" /\ u # t }
       IN  IF foundIndex # NULL /\ foundIndex > Len(t.reportList)
           THEN \* matchedItem is undefined and matchedItem.status throws
                /\ resumeTimers' = resumeTimers \ {t}
                /\ toast' = NoToast
                /\ UNCHANGED << reportList, resumeCurrentAwb,
                                resumeVerificationStatus, resumeIsVerifying >>
           ELSE IF foundIndex # NULL
                   /\ t.reportList[foundIndex].status # "Done"
           THEN /\ reportList'
                     = [t.reportList EXCEPT ![foundIndex].status = "Done"]
                /\ resumeVerificationStatus' = "success"
                /\ toast' = Toast("AWB Verified")
                /\ resumeCurrentAwb' = <<>>
                /\ resumeIsVerifying' = FALSE
                /\ resumeTimers' = resumeTimers \ {t}
           ELSE /\ resumeVerificationStatus'
                     = IF foundIndex # NULL THEN "info" ELSE "error"
                /\ toast' = NoToast
                /\ resumeIsVerifying' = FALSE
                /\ resumeTimers' = rest \cup { ResumeClearTimer(t.trimmedAwb) }
                /\ UNCHANGED << reportList, resumeCurrentAwb >>
    /\ UNCHANGED << resumeReaders, resumeAwbMap, resumeSelectedAwbs >>
    /\ report' = NoReport
    /\ UNCHANGED rvVars
    /\ UNCHANGED storeVars
    /\ UNCHANGED indexedVars

\* the 5000 ms callback
resumeClearInputCallback(t) ==
    /\ t \in resumeTimers
    /\ t.kind = "clear"
    /\ resumeTimers' = resumeTimers \ {t}
    /\ IF trim(resumeCurrentAwb) = t.trimmedAwb
       THEN /\ resumeCurrentAwb' = <<>>
            /\ resumeVerificationStatus' = "idle"
       ELSE UNCHANGED << resumeCurrentAwb, resumeVerificationStatus >>
    /\ UNCHANGED << reportList, resumeReaders, resumeAwbMap, resumeIsVerifying,
                    resumeSelectedAwbs >>
    /\ toast' = NoToast
    /\ report' = NoReport
    /\ UNCHANGED rvVars
    /\ UNCHANGED storeVars
    /\ UNCHANGED indexedVars

\* reportList.filter(item => item.status === 'Pending')
pendingAwbs == SelectSeq(reportList, LAMBDA item : item.status = "Pending")

\* handleSelect of the rows of the pending table
resumeHandleSelect(awb, isSelected) ==
    /\ resumeSelectedAwbs' = IF isSelected
                             THEN resumeSelectedAwbs \cup {awb}
                             ELSE resumeSelectedAwbs \ {awb}
    /\ UNCHANGED << reportList, resumeReaders, resumeAwbMap, resumeCurrentAwb,
                    resumeIsVerifying, resumeVerificationStatus, resumeTimers >>
    /\ toast' = NoToast
    /\ report' = NoReport
    /\ UNCHANGED rvVars
    /\ UNCHANGED storeVars
    /\ UNCHANGED indexedVars

\* handleSelectAll of the header checkbox, rendered with the pending table
resumeHandleSelectAll(checked) ==
    /\ Len(pendingAwbs) > 0
    /\ resumeSelectedAwbs'
         = IF checked
           THEN { pendingAwbs[k].awb : k \in 1..Len(pendingAwbs) }
           ELSE {}
    /\ UNCHANGED << reportList, resumeReaders, resumeAwbMap, resumeCurrentAwb,
                    resumeIsVerifying, resumeVerificationStatus, resumeTimers >>
    /\ toast' = NoToast
    /\ report' = NoReport
    /\ UNCHANGED rvVars
    /\ UNCHANGED storeVars
    /\ UNCHANGED indexedVars

\* handleMarkSelectedAsReceived of the page
resumeHandleMarkSelectedAsReceived ==
    /\ IF resumeSelectedAwbs = {}
       THEN /\ toast' = NoToast
            /\ UNCHANGED << reportList, resumeSelectedAwbs >>
       ELSE /\ reportList'
                 = [i \in 1..Len(reportList) |->
                      IF reportList[i].awb \in resumeSelectedAwbs
                      THEN [reportList[i] EXCEPT !.status = "Done"]
                      ELSE reportList[i]]
            /\ toast' = [title |-> "Items Marked as Done",
                         verified |-> Cardinality(resumeSelectedAwbs),
                         total |-> 0]
            /\ resumeSelectedAwbs' = {}
    /\ UNCHANGED << resumeReaders, resumeAwbMap, resumeCurrentAwb,
                    resumeIsVerifying, resumeVerificationStatus, resumeTimers >>
    /\ report' = NoReport
    /\ UNCHANGED rvVars
    /\ UNCHANGED storeVars
    /\ UNCHANGED indexedVars

\* a report of two shipments that travelled under one tracking number and a
\* third one, as rows of a report file give them
ResumePool ==
    { ReportItem(<<"1", "2", "3", "4", "5">>, "S1", "Pending"),
      ReportItem(<<"1", "2", "3", "4", "5">>, "S2", "Pending"),
      ReportItem(<<"1", "2", "3", "4", "A">>, "S3", "Pending"),
      ReportItem(<<"1", "2", "3", "4", "A">>, "S4", "Done") }

ResumeLists == UNION { [1..n -> ResumePool] : n \in 1..MaxListLen }

\* values of the input field of the page delivered by change events
ResumeInputValues ==
    { <<"1", "2", "3", "4", "5", " ">>,
      <<"1", "2", "3", "4", "a">>,
      <<"1", "2", "3", "4", "7">>,
      <<" ", "1", "2", "3", "4">> }

\* the page after a report has been loaded, the indexed component idle
ResumeInit ==
    \E extractedData \in ResumeLists :
        /\ awbList = <<>>
        /\ awbMap = EmptyMap
        /\ delhiveryPrefixMap = EmptyMap
        /\ currentAwb = <<>>
        /\ fileName = NoFileName
        /\ isVerifying = FALSE
        /\ verificationStatus = "idle"
        /\ selectedAwbs = {}
        /\ timers = {}
        /\ verificationDebounceTimerRef = NULL
        /\ clearInputTimerRef = NULL
        /\ readers = EmptyBag
        /\ uploads = 0
        /\ mounted = TRUE
        /\ toast = Toast("Report Loaded Successfully")
        /\ filters = NoFilters
        /\ report = NoReport
        /\ reportList = extractedData
        /\ resumeReaders = EmptyBag
        /\ resumeAwbMap = resumeNewAwbMap(extractedData)
        /\ resumeCurrentAwb = <<>>
        /\ resumeIsVerifying = FALSE
        /\ resumeVerificationStatus = "idle"
        /\ resumeSelectedAwbs = {}
        /\ resumeTimers = {}
        /\ rvInitial
        /\ storeInitial

ResumeKeystroke ==
    \E newAwb \in ResumeInputValues : resumeHandleAwbInputChange(newAwb)

ResumeDebounceFires == \E t \in resumeTimers : resumeDebounceCallback(t)

ResumeClearInputFires == \E t \in resumeTimers : resumeClearInputCallback(t)

ResumeSelectRow ==
    \E k \in 1..Len(pendingAwbs) :
        resumeHandleSelect(pendingAwbs[k].awb,
                           pendingAwbs[k].awb \notin resumeSelectedAwbs)

ResumeSelectAll == \E checked \in BOOLEAN : resumeHandleSelectAll(checked)

ResumeNext ==
    \/ ResumeKeystroke
    \/ ResumeDebounceFires
    \/ ResumeClearInputFires
    \/ ResumeSelectRow
    \/ ResumeSelectAll
    \/ resumeHandleMarkSelectedAsReceived

ResumeSpec == ResumeInit /\ [][ResumeNext]_vars

\* unmountCleanup without clearTimeout(verificationDebounceTimerRef)
unmountCleanup_KeepsDebounce ==
    /\ mounted
    /\ mounted' = FALSE
    /\ timers' = clearIfSet(timers, clearInputTimerRef)
    /\ UNCHANGED resumeVars
    /\ UNCHANGED rvVars
    /\ UNCHANGED storeVars
    /\ UNCHANGED << awbList, awbMap, delhiveryPrefixMap, currentAwb, fileName,
                    isVerifying, verificationStatus, selectedAwbs,
                    verificationDebounceTimerRef, clearInputTimerRef, readers,
                    uploads, filters >>
    /\ report' = NoReport
    /\ toast' = NoToast

\* ------------------------------------------------------------------------
\* Teardown: the cleanup of the mount effect
\* ------------------------------------------------------------------------
unmountCleanup ==
    /\ mounted
    /\ mounted' = FALSE
    /\ timers' = clearIfSet(clearIfSet(timers, verificationDebounceTimerRef),
                            clearInputTimerRef)
    /\ UNCHANGED resumeVars
    /\ UNCHANGED rvVars
    /\ UNCHANGED storeVars
    /\ UNCHANGED << awbList, awbMap, delhiveryPrefixMap, currentAwb, fileName,
                    isVerifying, verificationStatus, selectedAwbs,
                    verificationDebounceTimerRef, clearInputTimerRef, readers,
                    uploads, filters >>
    /\ report' = NoReport
    /\ toast' = NoToast

\* ------------------------------------------------------------------------
\* Specification
\* ------------------------------------------------------------------------
Keystroke == \E newAwb \in InputValues : handleAwbInputChange(newAwb)

DebounceFires == \E t \in timers : debounceCallback(t)

ClearInputFires == \E t \in timers : clearInputCallback(t)

Upload == \E file \in Files : handleFileUpload(file)

ReaderLoads == \E file \in Files : readerOnload(file)

ReaderFails == \E file \in Files : readerOnerror(file)

SelectRow ==
    \E k \in 1..Len(missingAwbs) :
        handleSelect(missingAwbs[k].awb, missingAwbs[k].awb \notin selectedAwbs)

SelectAll == handleSelectAll(~isAllSelected)

Next ==
    \/ Keystroke
    \/ DebounceFires
    \/ ClearInputFires
    \/ Upload
    \/ ReaderLoads
    \/ ReaderFails
    \/ SelectRow
    \/ SelectAll
    \/ handleMarkSelectedAsReceived
    \/ unmountCleanup

Spec == Init /\ [][Next]_vars

\* ------------------------------------------------------------------------
\* Properties
\* ------------------------------------------------------------------------
\* a step that takes part in an upload
UploadStep == uploads' # uploads \/ readers' # readers

\* positions of the current list whose record is received
receivedPositions(list) == { i \in 1..Len(list) : list[i].received }

\* C1: on one loaded record list (a single upload), a record that is Done
\* (received) is still Done after any keystroke, timer firing, selection
\* change or bulk mark.
C1_DoneNeverReverts ==
    [][ (uploads = 1 /\ ~UploadStep) =>
          /\ Len(awbList') = Len(awbList)
          /\ receivedPositions(awbList) \subseteq receivedPositions(awbList') ]_vars

\* a step in which the upload code calls setAwbList
ReplacesRecordList ==
    \/ Upload
    \/ \E file \in Files :
          /\ readerOnload(file)
          /\ mounted
          /\ file.kind = "badheader" \/ Len(file.data) > 0

\* C2: whenever an upload replaces the record list, no timer scheduled
\* before the replacement is still outstanding after it.
C2_UploadCancelsTimers ==
    [][ ReplacesRecordList => timers' = {} ]_vars

\* the match set of a tracking number in the current indices
currentMatches(trimmedAwb) ==
    SeqRange(verifyAwb(awbMap, delhiveryPrefixMap, trimmedAwb))
        \cap (1..Len(awbList))

pendingMatches(trimmedAwb) ==
    { i \in currentMatches(trimmedAwb) : ~awbList[i].received }

\* positions whose record differs between the list before and after a step
changedPositions ==
    { i \in 1..Len(awbList) : i > Len(awbList') \/ awbList'[i] # awbList[i] }

\* C3: when the debounce timer fires for a number matching several records
\* of which some are Pending, every matched record is Done after the step,
\* the result is success, the reported flipped count is the number of
\* records changed and the reported total is the size of the match set.
C3_MultiMatchFlipsAll ==
    [][ \A t \in debounceTimers :
          ( /\ debounceCallback(t)
            /\ Cardinality(currentMatches(t.trimmedAwb)) > 1
            /\ pendingMatches(t.trimmedAwb) # {} )
          => /\ Len(awbList') = Len(awbList)
             /\ \A i \in currentMatches(t.trimmedAwb) : awbList'[i].received
             /\ verificationStatus' = "success"
             /\ toast'.title = "Verified"
             /\ toast'.verified = Cardinality(changedPositions)
             /\ toast'.total = Cardinality(currentMatches(t.trimmedAwb)) ]_vars

\* C4: when the debounce timer fires for a number matching exactly one
\* record and that record is Pending, that record becomes Done, every other
\* record is unchanged and the result is success.
C4_SingleMatchFlipsOne ==
    [][ \A t \in debounceTimers : \A i \in 1..Len(awbList) :
          ( /\ debounceCallback(t)
            /\ currentMatches(t.trimmedAwb) = {i}
            /\ ~awbList[i].received )
          => /\ awbList' = [awbList EXCEPT ![i].received = TRUE]
             /\ verificationStatus' = "success" ]_vars

\* C6: when the debounce timer fires for a number whose match set is
\* non-empty and holds only records that are already Done, the result is
\* info and the record list is left exactly as it was.
C6_AllDoneIsInfo ==
    [][ \A t \in debounceTimers :
          ( /\ debounceCallback(t)
            /\ currentMatches(t.trimmedAwb) # {}
            /\ pendingMatches(t.trimmedAwb) = {} )
          => /\ verificationStatus' = "info"
             /\ awbList' = awbList ]_vars

\* C7: when the debounce timer fires for a number absent from both the
\* exact index and the prefix index, the result is error and no record's
\* status changes.
C7_AbsentIsError ==
    [][ \A t \in debounceTimers :
          ( /\ debounceCallback(t)
            /\ verifyAwb(awbMap, delhiveryPrefixMap, t.trimmedAwb) = <<>> )
          => /\ verificationStatus' = "error"
             /\ awbList' = awbList ]_vars

\* a keystroke that must not start a verification
shortOrUnloaded(newAwb) ==
    Len(trim(newAwb)) < MinAwbLength \/ Len(awbList) = 0

\* C5: after a keystroke whose trimmed value has fewer than 5 characters, or
\* that arrives while no records are loaded, no debounce timer is
\* outstanding (a pending one is cancelled), the verifying indicator is off
\* and the record list is as before.
C5_ShortInputNoTimer ==
    [][ \A newAwb \in InputValues :
          (handleAwbInputChange(newAwb) /\ shortOrUnloaded(newAwb))
          => /\ debounceTimers' = {}
             /\ awbList' = awbList ]_vars

\* C5 witness: records are loaded, the field holds a value that is too short
\* once trimmed, an earlier keystroke had started a timer, none is left.
C5_Witness ==
    /\ Len(awbList) > 0
    /\ currentAwb = <<" ", "1", "2", "3", "4">>
    /\ verificationDebounceTimerRef # NULL
    /\ isVerifying = FALSE
    /\ verificationStatus = "idle"
    /\ \A i \in 1..Len(awbList) : ~awbList[i].received
    /\ timers = {}

\* C8 (scheduling): a debounce callback that ends in error or info leaves an
\* auto-clear timer outstanding for the value it verified.
C8_AutoClearScheduled ==
    [][ \A t \in debounceTimers :
          (debounceCallback(t) /\ verificationStatus' \in {"error", "info"})
          => \E c \in clearInputTimers' : c.trimmedAwb = t.trimmedAwb ]_vars

\* C8 (firing): the auto-clear callback empties the field and returns the
\* result to idle exactly when the trimmed field equals the verified value,
\* and otherwise leaves the field as it is.
C8_AutoClearFires ==
    [][ \A c \in clearInputTimers :
          clearInputCallback(c)
          => /\ (currentAwb' = <<>> /\ verificationStatus' = "idle")
                    <=> (trim(currentAwb) = c.trimmedAwb)
             /\ trim(currentAwb) # c.trimmedAwb => currentAwb' = currentAwb ]_vars

\* C8 (typing): any keystroke cancels the outstanding auto-clear timer, so
\* it cannot clear what the operator typed afterwards.
C8_TypingCancelsAutoClear ==
    [][ Keystroke => clearInputTimers' = {} ]_vars

\* C8 (only the callback clears): while an auto-clear timer is outstanding
\* the field keeps the verified value; the timer goes away only by firing,
\* by a keystroke, by an upload or by teardown.
C8_AutoClearPending ==
    \A c \in clearInputTimers :
        /\ trim(currentAwb) = c.trimmedAwb
        /\ verificationStatus \in {"error", "info"}
        /\ mounted

\* C8 (progress): an outstanding auto-clear timer leads to the field being
\* empty and the result idle, unless the operator types or the component is
\* torn down first.
C8_EventuallyCleared ==
    (clearInputTimers # {})
        ~> \/ currentAwb = <<>> /\ verificationStatus = "idle"
           \/ currentAwb # <<>> /\ verificationStatus = "idle"
                                /\ clearInputTimers = {}
           \/ ~mounted

\* C8: after an error or info result the field is cleared by the auto-clear
\* timer if and only if it still holds the verified value, never after the
\* operator typed, and eventually when nothing else is typed.
C8_AutoClear ==
    /\ C8_AutoClearScheduled
    /\ C8_AutoClearFires
    /\ C8_TypingCancelsAutoClear
    /\ []C8_AutoClearPending
    /\ C8_EventuallyCleared

\* C8 witness: an error or info result is showing for the value in the field
\* and its auto-clear timer is outstanding.
C8_Witness ==
    /\ verificationStatus = "info"
    /\ \E c \in clearInputTimers :
          c.trimmedAwb = <<"1", "2", "3", "4", "5">>
    /\ currentAwb = <<"1", "2", "3", "4", "5", " ">>

\* an auto-clear timer fires once its delay has elapsed unless it is cleared
\* first
FairSpec == Spec /\ WF_vars(ClearInputFires)

\* ------------------------------------------------------------------------
\* Matching (verifyAwb and the index build) on every list of bounded length
\* ------------------------------------------------------------------------
\* records the extraction may assemble: numeric and alphanumeric tracking
\* numbers, with and without 'delhivery' in the courier name, a tracking
\* number shared by two couriers, a tracking number of a single digit
RecordPool ==
    { ReturnItem(<<"1", "2", "3", "4", "5">>, CourierDelhivery, "S1"),
      ReturnItem(<<"1", "2", "3", "4", "6">>, CourierDelhiverySurface, "S2"),
      ReturnItem(<<"1", "2", "3", "4", "A">>, CourierEkart, "S3"),
      ReturnItem(<<"1", "2", "3", "4", "5">>, CourierEkart, "S4"),
      ReturnItem(<<"7">>, CourierDelhivery, "S5") }

RecordLists == UNION { [1..n -> RecordPool] : n \in 1..MaxListLen }

\* the component right after reader.onload has installed extractedData and
\* the two indices built from it
VerifyInit ==
    \E extractedData \in RecordLists :
        /\ awbList = extractedData
        /\ awbMap = newAwbMap(extractedData)
        /\ delhiveryPrefixMap = newDelhiveryPrefixMap(extractedData)
        /\ currentAwb = <<>>
        /\ fileName = "list.xlsx"
        /\ isVerifying = FALSE
        /\ verificationStatus = "idle"
        /\ selectedAwbs = {}
        /\ timers = {}
        /\ verificationDebounceTimerRef = NULL
        /\ clearInputTimerRef = NULL
        /\ readers = EmptyBag
        /\ uploads = 1
        /\ mounted = TRUE
        /\ toast = Toast("File Processed Successfully")
        /\ filters = NoFilters
        /\ report = NoReport
        /\ reportList = <<>>
        /\ resumeReaders = EmptyBag
        /\ resumeInitial
        /\ rvInitial
        /\ storeInitial

\* the operator types and the two timers fire
VerifyNext ==
    \/ Keystroke
    \/ DebounceFires
    \/ ClearInputFires

VerifySpec == VerifyInit /\ [][VerifyNext]_vars

\* ------------------------------------------------------------------------
\* The component between two uploads: a list is loaded, no read is in flight
\* ------------------------------------------------------------------------
\* records whose tracking numbers differ only in letter case, one record
\* with 'delhivery' in the courier name
LoadedPool ==
    { ReturnItem(<<"1", "2", "3", "4", "A">>, CourierEkart, "S3"),
      ReturnItem(<<"1", "2", "3", "4", "a">>, CourierEkart, "S6"),
      ReturnItem(<<"1", "2", "3", "4", "5">>, CourierDelhivery, "S1") }

LoadedLists == UNION { [1..n -> LoadedPool] : n \in 1..MaxListLen }

LoadedInit ==
    \E extractedData \in LoadedLists :
        /\ awbList = extractedData
        /\ awbMap = newAwbMap(extractedData)
        /\ delhiveryPrefixMap = newDelhiveryPrefixMap(extractedData)
        /\ currentAwb = <<>>
        /\ fileName = "list.xlsx"
        /\ isVerifying = FALSE
        /\ verificationStatus = "idle"
        /\ selectedAwbs = {}
        /\ timers = {}
        /\ verificationDebounceTimerRef = NULL
        /\ clearInputTimerRef = NULL
        /\ readers = EmptyBag
        /\ uploads = 1
        /\ mounted = TRUE
        /\ toast = Toast("File Processed Successfully")
        /\ filters = NoFilters
        /\ report = NoReport
        /\ reportList = <<>>
        /\ resumeReaders = EmptyBag
        /\ resumeInitial
        /\ rvInitial
        /\ storeInitial

\* the values a courier popover offers: those of the records of the list
courierOptions ==
    { IF awbList[i].courierPartner = <<>> THEN Unknown
      ELSE awbList[i].courierPartner : i \in 1..Len(awbList) }

CheckboxFilter ==
    \E value \in courierOptions :
        handleCheckboxFilterChange("courierPartner", value,
                                   value \notin filters.courierPartner)

Download == \E writeFails \in BOOLEAN : handleDownloadReport(writeFails)

LoadedNext ==
    \/ Keystroke
    \/ DebounceFires
    \/ ClearInputFires
    \/ SelectRow
    \/ SelectAll
    \/ handleMarkSelectedAsReceived
    \/ CheckboxFilter
    \/ clearFilters
    \/ Download

LoadedSpec == LoadedInit /\ [][LoadedNext]_vars

\* selecting, scanning and bulk marking on a loaded list
MarkNext ==
    \/ Keystroke
    \/ DebounceFires
    \/ ClearInputFires
    \/ SelectRow
    \/ SelectAll
    \/ handleMarkSelectedAsReceived

MarkSpec == LoadedInit /\ [][MarkNext]_vars

\* ------------------------------------------------------------------------
\* Reports written by either page and uploaded to the ResumeVerification page
\* ------------------------------------------------------------------------
\* the report written by the latest step is chosen in the upload card
ResumeUpload == report # NoReport /\ resumeHandleFileUpload(report)

ResumeLoads == \E file \in BagToSet(resumeReaders) : resumeReaderOnload(file)

RoundTripNext ==
    \/ SelectRow
    \/ SelectAll
    \/ handleMarkSelectedAsReceived
    \/ Download
    \/ ResumeUpload
    \/ ResumeLoads
    \/ resumeHandleDownloadReport

RoundTripSpec == LoadedInit /\ [][RoundTripNext]_vars

\* ------------------------------------------------------------------------
\* Extraction on every sheet of bounded length
\* ------------------------------------------------------------------------
\* number of rows below the header row
MaxSheetRows == 2

HeaderRow ==
    [A |-> Str(<<"P", "r", "o", "d", "u", "c", "t", " ", "D", "e", "t", "a", "i", "l", "s">>),
     B |-> Str(<<"S", "u", "b", "o", "r", "d", "e", "r", " ", "I", "D">>), D |-> Str(<<"R", "e", "t", "u", "r", "n", " ", "S", "h", "i", "p", "p", "i", "n", "g", " ", "F", "e", "e">>),
     F |-> Str(<<"A", "W", "B", " ", "N", "u", "m", "b", "e", "r">>)]

\* rows a sheet may hold below its header: tracking numbers as strings and
\* as numbers, courier names with and without a digit, a numeric zero and an
\* empty cell in the tracking-number column; fees that are null, 0, "0",
\* blank and non-zero; product details naming one field, all four fields, a
\* keyword without value, a number, nothing
SheetRowPool ==
    { [A |-> Str(<<"S", "K", "U", ":", " ", "A">>),
       B |-> Str(<<"S", "1">>), D |-> Num(0),
       F |-> Str(<<"7", "1">>)],
      [A |-> Str(<<"S", "K", "U", ":", " ", "B">>),
       B |-> Str(<<"S", "2">>), D |-> Null,
       F |-> Str(<<"E", "K">>)],
      [A |-> Str(<<"Q", "t", "y", ":", " ", "2">>),
       B |-> Str(<<"S", "3">>), D |-> Str(<<"0">>),
       F |-> Num(0)],
      [A |-> Str(<<"S", "K", "U", ":", " ", "C", " ", "C", "a", "t", "e", "g", "o", "r", "y", ":", " ", "K", " ", "Q", "t", "y", ":", " ", "3", " ", "S", "i", "z", "e", ":", " ", "M">>),
       B |-> Null, D |-> Str(<<" ">>),
       F |-> Null],
      [A |-> Str(<<"S", "i", "z", "e", ":">>),
       B |-> Str(<<"S", "5">>), D |-> Num(5),
       F |-> Str(<<"7", "2">>)],
      [A |-> Null,
       B |-> Str(<<"S", "6">>), D |-> Str(<<" ">>),
       F |-> Str(<<"E", "1">>)],
      [A |-> Num(7),
       B |-> Str(<<"S", "7">>), D |-> Null,
       F |-> Num(7)] }

\* merged ranges of the sheet: none, a valid range of the suborder column, a
\* range starting on the header row, a range ending below the last row, a
\* range of another column
MergePool ==
    { <<>>,
      << [c |-> "B", s |-> 2, e |-> 3] >>,
      << [c |-> "B", s |-> 1, e |-> 3] >>,
      << [c |-> "B", s |-> 2, e |-> MaxSheetRows + 2] >>,
      << [c |-> "A", s |-> 2, e |-> 3] >> }

Sheets ==
    { [rows |-> <<HeaderRow>> \o body, merges |-> merges] :
        body \in UNION { [1..n -> SheetRowPool] : n \in 1..MaxSheetRows },
        merges \in MergePool }

\* a sheet without the marker, and one with the marker outside column F
SheetNoMarker ==
    [rows |-> << [HeaderRow EXCEPT !.F = Str(<<"A", "W", "B">>)] >>, merges |-> <<>>]

SheetMarkerMisplaced ==
    [rows |-> << [HeaderRow EXCEPT !.A = HeaderRow.F, !.F = HeaderRow.A] >>,
     merges |-> <<>>]

\* a range that starts on the header row over a candidate row whose product
\* cell names no SKU and a courier row whose product cell names one
SheetStartOnHeader ==
    [rows |-> << HeaderRow,
                 [A |-> Str(<<"S", "i", "z", "e", ":">>), B |-> Str(<<"S", "5">>),
                  D |-> Num(5), F |-> Str(<<"7", "2">>)],
                 [A |-> Str(<<"S", "K", "U", ":", " ", "B">>), B |-> Str(<<"S", "2">>),
                  D |-> Null, F |-> Str(<<"E", "K">>)] >>,
     merges |-> << [c |-> "B", s |-> 1, e |-> 3] >>]

\* a valid range over two rows that both name a SKU
SheetTwoSkus ==
    [rows |-> << HeaderRow,
                 [A |-> Str(<<"S", "K", "U", ":", " ", "A">>), B |-> Str(<<"S", "1">>),
                  D |-> Num(0), F |-> Str(<<"7", "1">>)],
                 [A |-> Str(<<"S", "K", "U", ":", " ", "B">>), B |-> Str(<<"S", "2">>),
                  D |-> Null, F |-> Str(<<"E", "K">>)] >>,
     merges |-> << [c |-> "B", s |-> 2, e |-> 3] >>]

SheetFiles ==
    { [kind |-> "sheet", name |-> "sheet.xlsx", sheet |-> sheet] :
        sheet \in Sheets \cup {SheetNoMarker, SheetMarkerMisplaced} }
    \cup { [kind |-> "sheet", name |-> "start-on-header.xlsx",
            sheet |-> SheetStartOnHeader],
           [kind |-> "sheet", name |-> "two-skus.xlsx",
            sheet |-> SheetTwoSkus] }

\* the component after handleFileUpload: the chosen file is being read
ExtractInit ==
    \E file \in SheetFiles :
        /\ awbList = <<>>
        /\ awbMap = EmptyMap
        /\ delhiveryPrefixMap = EmptyMap
        /\ currentAwb = <<>>
        /\ fileName = file.name
        /\ isVerifying = FALSE
        /\ verificationStatus = "idle"
        /\ selectedAwbs = {}
        /\ timers = {}
        /\ verificationDebounceTimerRef = NULL
        /\ clearInputTimerRef = NULL
        /\ readers = SetToBag({file})
        /\ uploads = 1
        /\ mounted = TRUE
        /\ toast = NoToast
        /\ filters = NoFilters
        /\ report = NoReport
        /\ reportList = <<>>
        /\ resumeReaders = EmptyBag
        /\ resumeInitial
        /\ rvInitial
        /\ storeInitial

SheetLoads == \E file \in BagToSet(readers) : readerOnloadSheet(file)

ExtractNext == SheetLoads

ExtractSpec == ExtractInit /\ [][ExtractNext]_vars

\* ------------------------------------------------------------------------
\* The component of ReturnVerification.tsx (300 ms debounce, no indices)
\* ------------------------------------------------------------------------
\* awbList.findIndex(...): the first of the positions that satisfy the
\* predicate, 0 for -1
findIndex(positions) ==
    IF positions = {}
    THEN 0
    ELSE CHOOSE i \in positions : \A j \in positions : i <= j

\* verifyAwb of ReturnVerification.tsx on the list the callback has captured
rvVerifyAwb(list, inputAwb) ==
    LET normalizedInput == trim(toLowerCase(inputAwb))
        inputPrefix == dropLast(normalizedInput)
        exact == { i \in 1..Len(list) :
                     toLowerCase(list[i].awb) = normalizedInput }
        byPrefix == { i \in 1..Len(list) :
                        /\ Len(toLowerCase(list[i].awb)) > 1
                        /\ isDelhivery(list[i])
                        /\ allDigits(dropLast(toLowerCase(list[i].awb)))
                        /\ dropLast(toLowerCase(list[i].awb)) = inputPrefix }
    IN  IF normalizedInput = <<>> THEN 0
        ELSE IF findIndex(exact) # 0 THEN findIndex(exact)
        ELSE IF Len(normalizedInput) > 1
                /\ Len(inputPrefix) > 0 /\ allDigits(inputPrefix)
             THEN findIndex(byPrefix)
             ELSE 0

\* the timeout a keystroke schedules: the callback closes over newAwb and
\* over the awbList of the render in which the key was pressed
RvTimer(newAwb) == [newAwb |-> newAwb, awbList |-> rvAwbList]

\* handleAwbInputChange of ReturnVerification.tsx: the function it returns
\* ('return () => clearTimeout(timer)') is the return value of an event
\* handler, which React discards, so no timeout is ever cleared
rvHandleAwbInputChange(value) ==
    LET newAwb == trim(value)
    IN  /\ rvCurrentAwb' = newAwb
        /\ rvVerificationStatus' = "idle"
        /\ IF Len(newAwb) >= 5 /\ Len(rvAwbList) > 0
           THEN /\ BagCardinality(rvTimers) < MaxRvTimers
                /\ rvIsVerifying' = TRUE
                /\ rvTimers' = rvTimers (+) SetToBag({RvTimer(newAwb)})
           ELSE /\ rvIsVerifying' = FALSE
                /\ UNCHANGED rvTimers
        /\ UNCHANGED rvAwbList
    /\ UNCHANGED resumeVars
    /\ UNCHANGED storeVars
    /\ UNCHANGED << awbList, awbMap, delhiveryPrefixMap, currentAwb, fileName,
                    isVerifying, verificationStatus, selectedAwbs, timers,
                    verificationDebounceTimerRef, clearInputTimerRef, readers,
                    uploads, mounted, toast, filters, report >>

\* the callback of setTimeout(..., 300)
rvDebounceCallback(t) ==
    /\ BagIn(t, rvTimers)
    /\ rvTimers' = rvTimers (-) SetToBag({t})
    /\ LET foundIndex == rvVerifyAwb(t.awbList, t.newAwb)
       IN  IF foundIndex # 0
           THEN IF ~t.awbList[foundIndex].received
                THEN /\ rvAwbList' = [rvAwbList EXCEPT
                                          ![foundIndex].received = TRUE]
                     /\ rvVerificationStatus' = "success"
                     /\ rvCurrentAwb' = <<>>
                ELSE /\ rvVerificationStatus' = "info"
                     /\ UNCHANGED << rvAwbList, rvCurrentAwb >>
           ELSE /\ rvVerificationStatus' = "error"
                /\ UNCHANGED << rvAwbList, rvCurrentAwb >>
    /\ rvIsVerifying' = FALSE
    /\ UNCHANGED resumeVars
    /\ UNCHANGED storeVars
    /\ UNCHANGED << awbList, awbMap, delhiveryPrefixMap, currentAwb, fileName,
                    isVerifying, verificationStatus, selectedAwbs, timers,
                    verificationDebounceTimerRef, clearInputTimerRef, readers,
                    uploads, mounted, toast, filters, report >>

\* the list of the component after an upload
RvData ==
    << ReturnItem(<<"1", "2", "3", "4", "5">>, CourierDelhivery, "S1"),
       ReturnItem(<<"1", "2", "3", "4", "5", "6">>, CourierEkart, "S2") >>

\* values of the input field delivered by change events: a scan that
\* arrives in two parts, a short value, a value matched by prefix
RvInputValues ==
    { <<"1", "2", "3", "4">>,
      <<"1", "2", "3", "4", "5">>,
      <<"1", "2", "3", "4", "5", "6">>,
      <<"1", "2", "3", "4", "7", " ">> }

RvInit ==
    /\ awbList = <<>>
    /\ awbMap = EmptyMap
    /\ delhiveryPrefixMap = EmptyMap
    /\ currentAwb = <<>>
    /\ fileName = NoFileName
    /\ isVerifying = FALSE
    /\ verificationStatus = "idle"
    /\ selectedAwbs = {}
    /\ timers = {}
    /\ verificationDebounceTimerRef = NULL
    /\ clearInputTimerRef = NULL
    /\ readers = EmptyBag
    /\ uploads = 0
    /\ mounted = TRUE
    /\ toast = NoToast
    /\ filters = NoFilters
    /\ report = NoReport
    /\ reportList = <<>>
    /\ resumeReaders = EmptyBag
    /\ resumeInitial
    /\ rvAwbList = RvData
    /\ rvCurrentAwb = <<>>
    /\ rvIsVerifying = FALSE
    /\ rvVerificationStatus = "idle"
    /\ rvTimers = EmptyBag
    /\ storeInitial

RvKeystroke == \E value \in RvInputValues : rvHandleAwbInputChange(value)

RvDebounceFires == \E t \in BagToSet(rvTimers) : rvDebounceCallback(t)

RvNext ==
    \/ RvKeystroke
    \/ RvDebounceFires

RvSpec == RvInit /\ [][RvNext]_vars

\* inputs on which verifyAwb is evaluated in the properties of the matching
VerifyInputs ==
    InputValues \cup
    { <<"1", "2", "3", "4", "6">>, <<"1", "2", "3", "4", "A">>,
      <<"1", "2", "3", "4", "a">>, <<"1", "2", "3", "4">>,
      <<"A", "B", "1", "2", "7">>, <<"1">>, <<>> }

normalized(inputAwb) == trim(toLowerCase(inputAwb))

\* the result of verifyAwb on the given indices came from the prefix index
viaPrefix(exactMap, prefixMap, inputAwb) ==
    /\ Len(MapGet(exactMap, normalized(inputAwb))) = 0
    /\ Len(verifyAwb(exactMap, prefixMap, inputAwb)) > 0

\* verifyAwb answers from the exact index when it has an entry, and from
\* the prefix index only for an input whose prefix is non-empty and numeric
prefixOnlyAfterExactMiss(exactMap, prefixMap, inputAwb) ==
    LET n == normalized(inputAwb)
        exactMatches == MapGet(exactMap, n)
        found == verifyAwb(exactMap, prefixMap, inputAwb)
    IN  /\ Len(exactMatches) > 0 => found = exactMatches
        /\ (Len(exactMatches) = 0 /\ Len(found) > 0)
            => /\ Len(dropLast(n)) > 0 /\ allDigits(dropLast(n))
               /\ found = MapGet(prefixMap, dropLast(n))

\* every record of list returned through the prefix path is a 'delhivery'
\* record with the numeric prefix of the input
prefixMatchesAreDelhivery(list, exactMap, prefixMap, inputAwb) ==
    LET n == normalized(inputAwb)
        found == verifyAwb(exactMap, prefixMap, inputAwb)
    IN  (Len(MapGet(exactMap, n)) = 0 /\ Len(found) > 0)
        => \A i \in SeqRange(found) :
              /\ i \in 1..Len(list)
              /\ isDelhivery(list[i])
              /\ allDigits(dropLast(list[i].awb))
              /\ dropLast(list[i].awb) = dropLast(n)

\* C9: verifyAwb answers from the prefix index only when the exact index has
\* no entry for the normalized input and the input without its last
\* character is non-empty and all digits; every record returned through the
\* prefix path is a 'delhivery' record whose tracking number without its
\* last character is all digits and equals the input without its last
\* character.
C9_PrefixFallbackScope ==
    \A inputAwb \in VerifyInputs :
        /\ prefixOnlyAfterExactMiss(awbMap, delhiveryPrefixMap, inputAwb)
        /\ prefixMatchesAreDelhivery(awbList, awbMap, delhiveryPrefixMap,
                                     inputAwb)

\* C9 witness: a verification of "12347" has just flipped the two delhivery
\* records "12345" and "12346" through the prefix index.
C9_Witness ==
    /\ verificationStatus = "success"
    /\ toast.title = "Verified" /\ toast.total = 2
    /\ Len(awbList) = 2
    /\ awbList[1].received /\ awbList[2].received
    /\ isDelhivery(awbList[1]) /\ isDelhivery(awbList[2])
    /\ viaPrefix(awbMap, delhiveryPrefixMap, <<"1", "2", "3", "4", "7">>)

\* characters that replace the last digit of a tracking number
AlteredLast == {"5", "6", "7", "A"}

\* records of the fuzzy-match carrier with an all-numeric tracking number
numericDelhivery(list) ==
    { i \in 1..Len(list) : isDelhivery(list[i]) /\ allDigits(list[i].awb) }

alteredInputs(awb) ==
    { dropLast(awb) \o <<c>> : c \in AlteredLast \ {awb[Len(awb)]} }

\* inputAwb reaches record i through the prefix path of the given indices
matchesViaPrefix(exactMap, prefixMap, inputAwb, i) ==
    /\ viaPrefix(exactMap, prefixMap, inputAwb)
    /\ i \in SeqRange(verifyAwb(exactMap, prefixMap, inputAwb))

\* C10 as claimed: for a record of the fuzzy-match carrier with an
\* all-numeric tracking number T, T without its last digit and T with its
\* last digit altered both match that record through the prefix fallback.
C10_OmittedOrAlteredMatches ==
    \A i \in numericDelhivery(awbList) :
        /\ matchesViaPrefix(awbMap, delhiveryPrefixMap,
                            dropLast(awbList[i].awb), i)
        /\ \A inputAwb \in alteredInputs(awbList[i].awb) :
              matchesViaPrefix(awbMap, delhiveryPrefixMap, inputAwb, i)

\* C10 amended: for such a record with T of two or more digits, T with its
\* last digit altered matches the record through the prefix fallback
\* whenever no record's tracking number equals the typed value, and T
\* without its last digit never matches the record.
C10_AlteredMatches ==
    \A i \in numericDelhivery(awbList) :
        Len(awbList[i].awb) >= 2 =>
            /\ i \notin SeqRange(verifyAwb(awbMap, delhiveryPrefixMap,
                                           dropLast(awbList[i].awb)))
            /\ \A inputAwb \in alteredInputs(awbList[i].awb) :
                  Len(MapGet(awbMap, normalized(inputAwb))) = 0
                  => matchesViaPrefix(awbMap, delhiveryPrefixMap, inputAwb, i)

\* C10 witness: on the list of "12345" (delhivery) and "12345" (another
\* courier) a verification of the altered input "12347" has just flipped the
\* delhivery record, and only it, through the prefix index; the shortened
\* "1234" matches nothing.
C10_Witness ==
    /\ Len(awbList) = 2
    /\ numericDelhivery(awbList) = {1}
    /\ awbList[1].awb = <<"1", "2", "3", "4", "5">>
    /\ awbList[2].awb = <<"1", "2", "3", "4", "5">>
    /\ verificationStatus = "success"
    /\ toast.title = "Verified" /\ toast.verified = 1 /\ toast.total = 1
    /\ awbList[1].received /\ ~awbList[2].received
    /\ matchesViaPrefix(awbMap, delhiveryPrefixMap, <<"1", "2", "3", "4", "7">>, 1)
    /\ verifyAwb(awbMap, delhiveryPrefixMap, <<"1", "2", "3", "4">>) = <<>>

\* ------------------------------------------------------------------------
\* Timers: one of each kind, teardown
\* ------------------------------------------------------------------------
\* at most one timer of each kind is outstanding
C11_OneOfEachKind ==
    /\ Cardinality(debounceTimers) <= 1
    /\ Cardinality(clearInputTimers) <= 1

\* an outstanding timer is the one its ref holds, the latest scheduled
C11_OutstandingIsLatest ==
    /\ \A t \in debounceTimers : t.id = verificationDebounceTimerRef
    /\ \A t \in clearInputTimers : t.id = clearInputTimerRef

\* a step that schedules a timer leaves no earlier timer of its kind
C11_SchedulingReplaces ==
    [][ \A t \in timers' \ timers :
          \A u \in timers : u.kind = t.kind => u \notin timers' ]_vars

\* a timer callback runs only for the timer its ref holds
C11_OnlyLatestRuns ==
    [][ \A t \in timers :
          /\ debounceCallback(t) => t.id = verificationDebounceTimerRef
          /\ clearInputCallback(t) => t.id = clearInputTimerRef ]_vars

\* C11: in every reachable state at most one debounce timer and at most one
\* auto-clear timer is outstanding; scheduling a timer cancels the previous
\* one of its kind, and only the latest scheduled timer of a kind ever runs.
C11_SingleTimers ==
    /\ []C11_OneOfEachKind
    /\ []C11_OutstandingIsLatest
    /\ C11_SchedulingReplaces
    /\ C11_OnlyLatestRuns

\* C11 witness: a keystroke has replaced the debounce timer of an earlier
\* keystroke: the ref holds the second timer and it alone is outstanding.
C11_Witness ==
    /\ verificationDebounceTimerRef = 2
    /\ clearInputTimerRef = NULL
    /\ isVerifying
    /\ verificationStatus = "idle"
    /\ \A i \in 1..Len(awbList) : ~awbList[i].received
    /\ \E t \in timers : timers = {t} /\ t.kind = "debounce" /\ t.id = 2

\* no timer is outstanding once the component is torn down
C12_NoTimerAfterTeardown == ~mounted => timers = {}

\* after teardown no timer callback runs, no record changes and the input
\* field keeps its content
C12_NothingRunsAfterTeardown ==
    [][ ~mounted =>
          /\ ~DebounceFires
          /\ ~ClearInputFires
          /\ awbList' = awbList
          /\ currentAwb' = currentAwb ]_vars

\* C12: after the component is torn down no debounce or auto-clear timer
\* callback ever runs, so no record is mutated and the input is not cleared.
C12_TeardownCancelsTimers ==
    /\ []C12_NoTimerAfterTeardown
    /\ C12_NothingRunsAfterTeardown

\* C12 witness: the component was torn down while the debounce timer for
\* the typed "12347" was outstanding; the timer is gone, the list and the
\* field are as they were.
C12_Witness ==
    /\ ~mounted
    /\ timers = {}
    /\ verificationDebounceTimerRef # NULL
    /\ isVerifying
    /\ verificationStatus = "idle"
    /\ Len(awbList) > 0
    /\ currentAwb = <<"1", "2", "3", "4", "7">>

\* ------------------------------------------------------------------------
\* The indices and the record list
\* ------------------------------------------------------------------------
\* positions of the current records whose lower-cased tracking number is key
positionsOfKey(key) ==
    { i \in 1..Len(awbList) : toLowerCase(awbList[i].awb) = key }

\* positions of the current 'delhivery' records with the numeric prefix
positionsOfPrefix(prefix) ==
    { i \in 1..Len(awbList) :
        /\ isDelhivery(awbList[i])
        /\ Len(prefix) > 0 /\ allDigits(prefix)
        /\ dropLast(toLowerCase(awbList[i].awb)) = prefix }

\* an index entry lists exactly the given positions, each once
listsExactly(entry, positions) ==
    /\ SeqRange(entry) = positions
    /\ Len(entry) = Cardinality(positions)

\* C13: in every reachable state each exact-index key maps to exactly the
\* positions of the current records with that lower-cased tracking number,
\* each prefix-index key to exactly the positions of the current
\* 'delhivery' records with that numeric prefix, and no record is missing
\* from an index it belongs to (so both are empty when the list is empty).
C13_IndicesDescribeList ==
    /\ \A key \in DOMAIN awbMap :
          listsExactly(awbMap[key], positionsOfKey(key))
    /\ \A i \in 1..Len(awbList) :
          toLowerCase(awbList[i].awb) \in DOMAIN awbMap
    /\ \A prefix \in DOMAIN delhiveryPrefixMap :
          listsExactly(delhiveryPrefixMap[prefix], positionsOfPrefix(prefix))
    /\ \A i \in 1..Len(awbList) :
          LET prefix == dropLast(toLowerCase(awbList[i].awb))
          IN  positionsOfPrefix(prefix) # {}
              => prefix \in DOMAIN delhiveryPrefixMap

\* ------------------------------------------------------------------------
\* Success clears the field at once
\* ------------------------------------------------------------------------
\* C14: when the debounce callback yields success, the input field is empty
\* in the state right after it and no auto-clear timer is outstanding.
C14_SuccessClearsAtOnce ==
    [][ \A t \in debounceTimers :
          (debounceCallback(t) /\ verificationStatus' = "success")
          => /\ currentAwb' = <<>>
             /\ clearInputTimers' = {}
             /\ clearInputTimerRef' = NULL ]_vars

\* C14 witness: the verification of the typed "12345 " has just flipped one
\* record; the field is empty and no timer is outstanding.
C14_Witness ==
    /\ verificationStatus = "success"
    /\ toast = [title |-> "Verified", verified |-> 1, total |-> 1]
    /\ currentAwb = <<>>
    /\ timers = {}
    /\ clearInputTimerRef = NULL
    /\ ~isVerifying
    /\ Len(awbList) = 2 /\ awbList[1].received /\ ~awbList[2].received

\* ------------------------------------------------------------------------
\* C15: the rows produced for the report correspond one-to-one and in order
\* to the records of the list at export time; each row's Status is 'Done'
\* exactly when the record is received and 'Pending' otherwise; a row has the
\* highlight fill if and only if its Status is 'Pending'.
\* (the sheet is the output of the download step, which leaves the list
\* alone, so the list of the state is the list at export time)
\* ------------------------------------------------------------------------
C15_ReportRows ==
    report # NoReport =>
        /\ Len(report) = Len(awbList)
        /\ \A i \in 1..Len(awbList) :
              /\ report[i].cells["AWB Number"] = awbList[i].awb
              /\ report[i].cells["Suborder ID"] = awbList[i].suborderId
              /\ report[i].cells["Status"] \in {"Done", "Pending"}
              /\ report[i].cells["Status"] = "Done" <=> awbList[i].received
              /\ report[i].fill <=> report[i].cells["Status"] = "Pending"

\* a sheet of two rows was written: the first record was verified and its row
\* reads Done without fill, the second is pending and its row has the fill
C15_Witness ==
    /\ toast = Toast("Report Downloaded")
    /\ Len(awbList) = 2
    /\ awbList[1].received
    /\ ~awbList[2].received
    /\ Len(report) = 2
    /\ report[1].cells["Status"] = "Done"
    /\ ~report[1].fill
    /\ report[2].cells["Status"] = "Pending"
    /\ report[2].fill

\* ------------------------------------------------------------------------
\* C16: the pending view (missingAwbs) contains a record if and only if the
\* record is Pending and every configured filter accepts it, where an empty
\* inclusion set or an empty text filter accepts every record; with no
\* filters configured it is exactly the list of the records not yet marked
\* received, in list order.
\* ------------------------------------------------------------------------
\* filter settings on which the acceptance is evaluated: no text, a letter in
\* the other case, a digit; every set of courier names of the list
FilterInputs ==
    [awb : { <<>>, <<"A">>, <<"5">> }, courierPartner : SUBSET courierOptions]

\* the text filter accepts a value: it is empty, or occurs in the value
\* whatever the letter case
textAccepts(value, text) ==
    \/ text = <<>>
    \/ \E i \in 1..Len(value) :
          /\ i + Len(text) - 1 <= Len(value)
          /\ \A j \in 1..Len(text) :
                toLowerCase(<<value[i + j - 1]>>) = toLowerCase(<<text[j]>>)

\* positions of the records that are pending and accepted under f
acceptedPositions(f) ==
    { i \in 1..Len(awbList) :
        /\ ~awbList[i].received
        /\ textAccepts(awbList[i].awb, f.awb)
        /\ f.courierPartner = {} \/ awbList[i].courierPartner \in f.courierPartner }

\* view holds the records at the given positions, once each, in list order
isOrderedViewOf(view, positions) ==
    /\ Len(view) = Cardinality(positions)
    /\ \E at \in [1..Len(view) -> positions] :
          /\ \A k \in 1..Len(view) : view[k] = awbList[at[k]]
          /\ \A k, l \in 1..Len(view) : k < l => at[k] < at[l]

attemptFinishes(file) ==
    /\ mounted
    /\ readerOnload(file) \/ readerOnerror(file)

\* list holds the records of data, whatever their status
sameRecords(list, data) ==
    /\ Len(list) = Len(data)
    /\ \A i \in 1..Len(data) : [list[i] EXCEPT !.received = FALSE] = data[i]

C17_NoPartialList ==
    \E file \in Files : sameRecords(awbList, file.data)

C17_AttemptOutcome ==
    [][ \A file \in Files :
          attemptFinishes(file) =>
              IF file.kind = "ok" /\ Len(file.data) > 0
              THEN awbList' = file.data
              ELSE awbList' = <<>> ]_vars

C17_CompleteOrEmpty == []C17_NoPartialList /\ C17_AttemptOutcome

\* ------------------------------------------------------------------------
\* C18: between two uploads, no action other than a debounce-timer firing or
\* the bulk 'mark selected' operation changes any record: keystrokes by
\* themselves, auto-clear firings, filter changes, selection changes and
\* report generation (successful or failing) leave the record list unchanged
\* in length, order and every field including status.
\* ------------------------------------------------------------------------
C18_OnlyVerifyAndBulkMarkChangeRecords ==
    [][ /\ awbList' # awbList => DebounceFires \/ handleMarkSelectedAsReceived
        /\ ( \/ Keystroke
             \/ ClearInputFires
             \/ CheckboxFilter
             \/ clearFilters
             \/ SelectRow
             \/ SelectAll
             \/ Download ) => awbList' = awbList ]_vars

\* a report generation has just failed on a list with one record verified
\* and one pending
C18_Witness ==
    /\ toast = Toast("Report Generation Error")
    /\ report = NoReport
    /\ Len(awbList) = 2
    /\ awbList[1].received
    /\ ~awbList[2].received

\* ------------------------------------------------------------------------
\* C19: an upload whose sheet has a valid header but yields zero records
\* ends in the 'no data' outcome, and an upload whose sheet has no header
\* row containing the tracking-number marker ends in the structural-error
\* outcome; the two outcomes are distinct, and in both the record list is
\* empty afterwards.
\* ------------------------------------------------------------------------
yieldsNoRecords(file) == file.kind = "ok" /\ Len(file.data) = 0

C19_Outcomes ==
    [][ \A file \in Files :
          (mounted /\ readerOnload(file)) =>
              /\ yieldsNoRecords(file) => toast' = Toast("No Data Found")
              /\ file.kind = "badheader"
                    => toast' = Toast("File Processing Error")
              /\ Toast("No Data Found") # Toast("File Processing Error") ]_vars

C19_ListEmptyAfterwards ==
    [][ \A file \in Files :
          ( /\ mounted
            /\ readerOnload(file)
            /\ yieldsNoRecords(file) \/ file.kind = "badheader" )
          => awbList' = <<>> ]_vars

C19_NoDataAndStructuralError == C19_Outcomes /\ C19_ListEmptyAfterwards

\* ------------------------------------------------------------------------
\* C20: tracking-number equality is case-insensitive and whitespace-trimmed
\* in every operation that matches records by tracking number: two inputs
\* that differ only in letter case or surrounding whitespace produce the
\* same match set in verifyAwb, and the bulk 'mark selected' operation
\* treats two records whose tracking numbers differ only in case as the
\* same tracking number.
\* ------------------------------------------------------------------------
\* inputs in both letter cases, with and without surrounding whitespace
equalityInputs ==
    VerifyInputs \cup { <<"1", "2", "3", "4", "5">>,
                        <<" ", "1", "2", "3", "4", "a", " ">>,
                        <<"1", "2", "3", "4", "A", " ">> }

sameTrackingNumber(a, b) == trim(toLowerCase(a)) = trim(toLowerCase(b))

C20_VerifyIgnoresCaseAndSpace ==
    \A a, b \in equalityInputs :
        sameTrackingNumber(a, b)
            => verifyAwb(awbMap, delhiveryPrefixMap, a)
                   = verifyAwb(awbMap, delhiveryPrefixMap, b)

C20_BulkMarkIgnoresCase ==
    [][ (handleMarkSelectedAsReceived /\ selectedAwbs # {}) =>
          \A i, j \in 1..Len(awbList) :
              ( /\ awbList[i].awb \in selectedAwbs
                /\ sameTrackingNumber(awbList[i].awb, awbList[j].awb) )
              => awbList'[j].received ]_vars

C20_EqualityIgnoresCaseAndSpace ==
    []C20_VerifyIgnoresCaseAndSpace /\ C20_BulkMarkIgnoresCase

\* ------------------------------------------------------------------------
\* C21: any report file generated by this tool (by the ReturnVerification
\* download and by the ResumeVerification 'Download Updated Report') is
\* accepted by the ResumeVerification upload, and the loaded list has one
\* record per report row, in order, with the same tracking number and the
\* same Done/Pending status as at export time.
\* ------------------------------------------------------------------------
\* the tracking number and the status written in a row of a report of
\* either page
rowAwb(row) ==
    IF "AWB Number" \in DOMAIN row THEN row["AWB Number"] ELSE row["awb"]

rowStatus(row) ==
    IF "Status" \in DOMAIN row THEN row["Status"] ELSE row["status"]

C21_ReportsAreAccepted ==
    [][ \A file \in BagToSet(resumeReaders) :
          resumeReaderOnload(file) =>
              /\ toast' = Toast("Report Loaded Successfully")
              /\ Len(reportList') = Len(file)
              /\ \A i \in 1..Len(file) :
                    /\ reportList'[i].awb = rowAwb(file[i].cells)
                    /\ reportList'[i].status = rowStatus(file[i].cells) ]_vars

\* ------------------------------------------------------------------------
\* C22: during extraction, when a row is accepted as a candidate (non-empty
\* tracking-number cell containing a digit), the non-empty cell in the same
\* column of the next row becomes that record's courier name and that next
\* row never produces a record itself, whatever its content (including a
\* digit-bearing value) and whatever later rows contain.
\* ------------------------------------------------------------------------
\* the read of a sheet ends in this step with its header accepted
sheetExtracted(file) ==
    /\ mounted
    /\ readerOnloadSheet(file)
    /\ ~headerCheckThrows(file.sheet)

\* the cell holds a value: a number, or a string of at least one character
nonEmptyCell(cell) == cell.t = "n" \/ (cell.t = "s" /\ cell.v # <<>>)

C22_CourierRowConsumed ==
    [][ \A file \in BagToSet(readers) :
          sheetExtracted(file) =>
              LET rows == file.sheet.rows
                  candidates == extractionOf(file.sheet)
              IN  \A k \in 1..Len(candidates) :
                      ( /\ candidates[k].r + 1 <= Len(rows)
                        /\ nonEmptyCell(rows[candidates[k].r + 1].F) )
                      => /\ awbList'[k].courierPartner
                              = trim(toStringOr(rows[candidates[k].r + 1].F,
                                                <<>>))
                         /\ \A l \in 1..Len(candidates) :
                               candidates[l].r # candidates[k].r + 1 ]_vars

\* ------------------------------------------------------------------------
\* C23: during extraction, if the grouping-column merge range covering a
\* candidate row is invalid (its start row is at or above the header row or
\* outside the sheet, or its end row is beyond the last row), the span used
\* for that record is exactly the single candidate row (start = end =
\* candidate row).
\* ------------------------------------------------------------------------
\* the first range of the suborder column that covers row r
coveringMerge(sheet, r) ==
    sheet.merges[CHOOSE k \in coveringMerges(sheet, r) :
                    \A l \in coveringMerges(sheet, r) : k <= l]

startValid(sheet, m) == m.s > headerRowIndexOf(sheet) /\ m.s <= Len(sheet.rows)

endValid(sheet, m) == m.e <= Len(sheet.rows)

\* as stated: an invalid range gives the single candidate row
C23_InvalidRangeIsSingleRow ==
    [][ \A file \in BagToSet(readers) :
          sheetExtracted(file) =>
              \A k \in 1..Len(extractionOf(file.sheet)) :
                  LET candidate == extractionOf(file.sheet)[k]
                  IN  ( /\ coveringMerges(file.sheet, candidate.r) # {}
                        /\ LET m == coveringMerge(file.sheet, candidate.r)
                           IN  ~startValid(file.sheet, m)
                               \/ ~endValid(file.sheet, m) )
                      => candidate.span
                            = [start |-> candidate.r, end |-> candidate.r] ]_vars

\* amended: each end of the range is replaced by the candidate row on its
\* own; a range with no covering merge is the candidate row
C23_EndsClampedSeparately ==
    [][ \A file \in BagToSet(readers) :
          sheetExtracted(file) =>
              \A k \in 1..Len(extractionOf(file.sheet)) :
                  LET candidate == extractionOf(file.sheet)[k]
                  IN  IF coveringMerges(file.sheet, candidate.r) = {}
                      THEN candidate.span
                              = [start |-> candidate.r, end |-> candidate.r]
                      ELSE LET m == coveringMerge(file.sheet, candidate.r)
                           IN  /\ candidate.span.start
                                    = IF startValid(file.sheet, m)
                                      THEN m.s
                                      ELSE candidate.r
                               /\ candidate.span.end
                                    = IF endValid(file.sheet, m)
                                      THEN m.e
                                      ELSE candidate.r
                               /\ ( ~startValid(file.sheet, m)
                                    /\ ~endValid(file.sheet, m) )
                                  => candidate.span.start = candidate.span.end ]_vars

\* the sheet whose range starts on the header row was loaded: the record of
\* row 2 has the SKU named in row 3, so its span ran from row 2 to row 3
C23_Witness ==
    /\ fileName = "start-on-header.xlsx"
    /\ readers = EmptyBag
    /\ Len(awbList) = 1
    /\ awbList[1].awb = <<"7", "2">>
    /\ awbList[1].courierPartner = <<"E", "K">>
    /\ awbList[1].sku = <<"B">>

\* ------------------------------------------------------------------------
\* C24: within a shipment span scanned top to bottom, each of SKU, category,
\* quantity and size takes the value of the first row in the span that
\* yields a successful extraction for it; a later row never overwrites a
\* field already found, and the scan stops once all four are found; a field
\* with no successful extraction in the span is "-".
\* ------------------------------------------------------------------------
\* the text of the product cell of row j, '' beyond the sheet
productText(rows, j) ==
    IF j <= Len(rows) THEN trim(toStringOr(rows[j].A, <<>>)) ELSE <<>>

\* the four extractions of the product cell of row j
extractionsOfRow(rows, j) ==
    [sku |-> extractedSku(productText(rows, j)),
     category |-> extractedCategory(productText(rows, j)),
     qty |-> extractedQty(productText(rows, j)),
     size |-> extractedSize(productText(rows, j))]

ProductFields == {"sku", "category", "qty", "size"}

\* the rows of the span whose cell yields a successful extraction of field
successfulRows(rows, span, field) ==
    { j \in span.start..span.end :
        successful(extractionsOfRow(rows, j)[field]) }

firstRow(S) == CHOOSE j \in S : \A i \in S : j <= i

\* every field has a successful row among the rows start..j of the span
allFoundBy(rows, span, j) ==
    \A field \in ProductFields :
        \E i \in successfulRows(rows, span, field) : i <= j

C24_FirstExtractionWins ==
    [][ \A file \in BagToSet(readers) :
          sheetExtracted(file) =>
              LET rows == file.sheet.rows
                  candidates == extractionOf(file.sheet)
              IN  \A k \in 1..Len(candidates) :
                      LET span == candidates[k].span
                          item == [sku |-> awbList'[k].sku,
                                   category |-> awbList'[k].category,
                                   qty |-> awbList'[k].qty,
                                   size |-> awbList'[k].size]
                      IN  /\ \A field \in ProductFields :
                                item[field]
                                  = IF successfulRows(rows, span, field) = {}
                                    THEN Dash
                                    ELSE extractionsOfRow(rows,
                                            firstRow(successfulRows(rows, span,
                                                                    field)))[field]
                          /\ candidates[k].visited
                                = { j \in span.start..span.end :
                                      \A i \in span.start..(j - 1) :
                                          ~allFoundBy(rows, span, i) } ]_vars

\* the sheet whose span holds two rows naming a SKU was loaded: the record
\* has the SKU of the first row, and no category
C24_Witness ==
    /\ fileName = "two-skus.xlsx"
    /\ readers = EmptyBag
    /\ Len(awbList) = 1
    /\ awbList[1].sku = <<"A">>
    /\ awbList[1].category = Dash

\* ------------------------------------------------------------------------
\* C25: every extracted record's returnType is 'RTO' when the fee cell of
\* the span's first row has numeric value zero or is the string "0", and
\* 'Customer Return' in every other case including an unreadable (null) fee
\* cell; no record has any other returnType.
\* ------------------------------------------------------------------------
\* a numeral of zero: a non-empty string of zeros
zeroNumeral(s) == s # <<>> /\ \A i \in 1..Len(s) : s[i] = "0"

\* the cell holds the number zero, or a string that reads as zero
feeIsZero(cell) ==
    \/ cell.t = "n" /\ cell.v = 0
    \/ cell.t = "s" /\ zeroNumeral(trim(cell.v))

C25_ReturnTypeFromFee ==
    [][ \A file \in BagToSet(readers) :
          sheetExtracted(file) =>
              LET rows == file.sheet.rows
                  candidates == extractionOf(file.sheet)
              IN  \A k \in 1..Len(candidates) :
                      awbList'[k].returnType
                        = IF feeIsZero(rows[candidates[k].span.start].D)
                          THEN RTO
                          ELSE CustomerReturn ]_vars

\* ------------------------------------------------------------------------
\* C26: in the component of ReturnVerification.tsx (300 ms debounce), when
\* the input changes before the debounce delay has elapsed, the timeout
\* scheduled for the earlier value is cancelled, so only the most recently
\* typed value is ever verified.
\* ------------------------------------------------------------------------
\* a change of the input leaves no timeout of an earlier value pending
C26_ChangeCancelsEarlier ==
    [][ \A value \in RvInputValues :
          rvHandleAwbInputChange(value) =>
              \A t \in BagToSet(rvTimers') : t.newAwb = trim(value) ]_vars

\* the value a callback verifies is the one typed last
C26_VerifiesLatest ==
    [][ \A t \in BagToSet(rvTimers) :
          rvDebounceCallback(t) => t.newAwb = rvCurrentAwb ]_vars

C26_OnlyLatestVerified == C26_ChangeCancelsEarlier /\ C26_VerifiesLatest

\* ------------------------------------------------------------------------
\* C27: whenever a debounce timer is outstanding in the indexed
\* ReturnVerification component, the value it will verify equals the trimmed
\* current content of the input field, and the record list and indices it
\* will read are the current ones (the callback never works on a snapshot
\* that differs from the current list).
\* ------------------------------------------------------------------------
C27_TimerValueIsCurrentInput ==
    \A t \in debounceTimers : t.trimmedAwb = trim(currentAwb)

C27_TimerReadsCurrentList ==
    \A t \in debounceTimers :
        /\ t.awbList = awbList
        /\ t.awbMap = awbMap
        /\ t.delhiveryPrefixMap = delhiveryPrefixMap

C27_TimerSeesCurrentState ==
    C27_TimerValueIsCurrentInput /\ C27_TimerReadsCurrentList

\* ------------------------------------------------------------------------
\* C28: the debounce timer and the auto-clear timer are never outstanding at
\* the same time: every keystroke cancels the auto-clear timer before a
\* debounce timer may start, and an auto-clear timer is only scheduled by a
\* debounce callback that has just fired.
\* ------------------------------------------------------------------------
C28_NeverBoth == debounceTimers = {} \/ clearInputTimers = {}

C28_KeystrokeCancelsAutoClear ==
    [][ \A newAwb \in InputValues :
          handleAwbInputChange(newAwb) =>
              \A t \in timers' : t.kind # "clear" ]_vars

C28_OnlyCallbackSchedulesAutoClear ==
    [][ (\E t \in timers' \ timers : t.kind = "clear")
          => \E d \in debounceTimers :
                /\ debounceCallback(d)
                /\ d \notin timers'
                /\ \A t \in timers' : t.kind = "clear" ]_vars

C28_TimersExcludeEachOther ==
    /\ []C28_NeverBoth
    /\ C28_KeystrokeCancelsAutoClear
    /\ C28_OnlyCallbackSchedulesAutoClear

\* a keystroke has cancelled a pending auto-clear timer and started a
\* debounce timer: both refs held a timer id when the new id was drawn
C28_Witness ==
    /\ mounted
    /\ clearInputTimerRef = NULL
    /\ verificationStatus = "idle"
    /\ isVerifying
    /\ \E t \in timers :
          timers = {t} /\ t.kind = "debounce" /\ t.id = 3
          /\ verificationDebounceTimerRef = 3

\* ------------------------------------------------------------------------
\* C29: the 'verifying' indicator (isVerifying) is true if and only if a
\* debounce timer is outstanding; in particular, after any sequence of
\* keystrokes, timer firings and uploads in which no debounce timer remains
\* outstanding, isVerifying is false.
\* ------------------------------------------------------------------------
C29_VerifyingIffDebouncing ==
    mounted => (isVerifying <=> debounceTimers # {})

\* ------------------------------------------------------------------------
\* C30: all records flipped to Done by one verification share the same
\* normalized tracking number; a single input never marks records of two
\* different tracking numbers as received.
\* ------------------------------------------------------------------------
\* positions that are Pending before the step and Done after it
flippedPositions ==
    { i \in 1..Len(awbList) :
        /\ i <= Len(awbList')
        /\ ~awbList[i].received
        /\ awbList'[i].received }

C30_OneTrackingNumberPerVerification ==
    [][ \A t \in debounceTimers :
          debounceCallback(t) =>
              \A i, j \in flippedPositions :
                  normalized(awbList[i].awb) = normalized(awbList[j].awb) ]_vars

\* the same, for verifications answered by the exact index
C30_ExactMatchesShareNumber ==
    [][ \A t \in debounceTimers :
          ( /\ debounceCallback(t)
            /\ ~viaPrefix(t.awbMap, t.delhiveryPrefixMap, t.trimmedAwb) )
          => \A i, j \in flippedPositions :
                 normalized(awbList[i].awb) = normalized(awbList[j].awb) ]_vars

\* ------------------------------------------------------------------------
\* C31: the bulk 'mark selected' operation sets to Done exactly the records
\* whose tracking number is in the selection set, leaves every other record
\* unchanged, and empties the selection; with an empty selection it changes
\* nothing.
\* ------------------------------------------------------------------------
C31_BulkMarkFrame ==
    [][ handleMarkSelectedAsReceived =>
          IF selectedAwbs = {}
          THEN /\ toast' = NoToast
               /\ UNCHANGED << awbList, awbMap, delhiveryPrefixMap,
                               currentAwb, fileName, isVerifying,
                               verificationStatus, selectedAwbs, timers,
                               verificationDebounceTimerRef,
                               clearInputTimerRef, filters >>
          ELSE /\ Len(awbList') = Len(awbList)
               /\ \A i \in 1..Len(awbList) :
                     IF awbList[i].awb \in selectedAwbs
                     THEN /\ awbList'[i].received
                          /\ awbList'[i]
                               = [awbList[i] EXCEPT !.received = TRUE]
                     ELSE awbList'[i] = awbList[i]
               /\ selectedAwbs' = {}
               /\ UNCHANGED << awbMap, delhiveryPrefixMap, currentAwb,
                               verificationStatus, timers, filters >> ]_vars

\* a bulk mark has set one of two records to Done and emptied the selection
C31_Witness ==
    /\ toast.title = "Items Marked as Received"
    /\ selectedAwbs = {}
    /\ Len(awbList) = 2
    /\ awbList[1].received
    /\ ~awbList[2].received
    /\ awbList[1].awb # awbList[2].awb

\* ------------------------------------------------------------------------
\* C32: the number of shipments that the bulk 'mark selected' operation
\* reports as updated equals the number of records whose status changed from
\* Pending to Done in that operation, for every reachable selection
\* (including selections made before some selected records were verified by
\* scanning, and tracking numbers shared by several records).
\* ------------------------------------------------------------------------
C32_ReportedCountIsChangedCount ==
    [][ (handleMarkSelectedAsReceived /\ selectedAwbs # {})
          => /\ toast'.title = "Items Marked as Received"
             /\ toast'.verified = Cardinality(flippedPositions) ]_vars

\* the same for selections that name each Pending record once and no other
C32_CountOfDistinctPending ==
    [][ ( /\ handleMarkSelectedAsReceived
          /\ selectedAwbs # {}
          /\ \A awb \in selectedAwbs :
                Cardinality({ i \in 1..Len(awbList) :
                                awbList[i].awb = awb /\ ~awbList[i].received })
                  = 1 )
          => toast'.verified = Cardinality(flippedPositions) ]_vars

\* ------------------------------------------------------------------------
\* C33: when a second upload is started before the file read of the first
\* has completed, then after both reads have completed the record list and
\* both indices are those extracted from the second (most recently started)
\* upload, regardless of the order in which the two reads complete.
\* ------------------------------------------------------------------------
\* fileName is the name of the file chosen last for as long as no read has
\* failed; once no read is in flight, the list and the indices are those of
\* that file
C33_LatestUploadWins ==
    \A file \in Files :
        ( /\ mounted
          /\ readers = EmptyBag
          /\ file.kind = "ok"
          /\ Len(file.data) > 0
          /\ fileName = file.name )
        => /\ sameRecords(awbList, file.data)
           /\ awbMap = newAwbMap(file.data)
           /\ delhiveryPrefixMap = newDelhiveryPrefixMap(file.data)

\* ------------------------------------------------------------------------
\* C34: the ResumeVerification page and tracking numbers shared by records
\* ------------------------------------------------------------------------
\* positions of the loaded report whose tracking number is the typed one
sharingPositions(list, trimmedAwb) ==
    { i \in 1..Len(list) :
        toLowerCase(list[i].awb) = trim(toLowerCase(trimmedAwb)) }

\* when the debounce timer fires for a tracking number that several loaded
\* records share, every record with that number is Done afterwards
C34_SharedNumberAllDone ==
    [][ \A t \in resumeTimers :
          ( /\ resumeDebounceCallback(t)
            /\ Cardinality(sharingPositions(reportList, t.trimmedAwb)) > 1 )
          => \A i \in sharingPositions(reportList', t.trimmedAwb) :
                reportList'[i].status = "Done" ]_vars

\* a record that is Done is not Pending after a timer firing or a bulk mark
C34_ResumeDoneNeverReverts ==
    [][ (ResumeDebounceFires \/ resumeHandleMarkSelectedAsReceived)
          => /\ Len(reportList') = Len(reportList)
             /\ \A i \in 1..Len(reportList) :
                   reportList[i].status = "Done"
                   => reportList'[i].status = "Done" ]_vars

\* C34: in the ResumeVerification component, when the debounce timer fires
\* for a tracking number shared by several loaded records every Pending
\* record with that number becomes Done, and a record already Done is never
\* reverted to Pending by a later timer firing or bulk mark.
C34_SharedNumberVerifiedTogether ==
    C34_SharedNumberAllDone /\ C34_ResumeDoneNeverReverts

\* ------------------------------------------------------------------------
\* The toast store (hooks/use-toast.ts)
\* ------------------------------------------------------------------------
TOAST_LIMIT == 1

TOAST_DEFAULT_DURATION == 5000

\* calls of toast() in a behaviour
MaxToasts == 3

\* an id is count.toString(); NULL stands for an undefined toastId
ToastIds == 1..MaxToasts

\* { ...t, ...props }: the fields of props over those of t
spread(t, props) ==
    [f \in DOMAIN t \cup DOMAIN props |->
        IF f \in DOMAIN props THEN props[f] ELSE t[f]]

\* props.duration, 0 for a field that is not there (both are falsy)
durationOf(props) ==
    IF "duration" \in DOMAIN props THEN props.duration ELSE 0

\* toastTimeouts.delete(toastId)
timeoutsDelete(timeouts, toastId) ==
    [k \in DOMAIN timeouts \ {toastId} |-> timeouts[k]]

\* clearTimeout(toastTimeouts.get(toastId)) under if (toastTimeouts.has(...))
clearTimeoutOf(timeouts, pending, toastId) ==
    IF toastId \in DOMAIN timeouts
    THEN { t \in pending : t.handle # timeouts[toastId] }
    ELSE pending

\* the handle setTimeout returns: one that no pending timeout has and that
\* the map holds under no other id
newHandle(timeouts, pending, toastId) ==
    CHOOSE h \in 1..(MaxToasts + 1) :
        /\ \A t \in pending : t.handle # h
        /\ \A k \in DOMAIN timeouts \ {toastId} : timeouts[k] # h
        /\ \A g \in 1..(h - 1) :
              \/ \E t \in pending : t.handle = g
              \/ \E k \in DOMAIN timeouts \ {toastId} : timeouts[k] = g

\* scheduleToastRemoval: the map and the pending timeouts it leaves
scheduleToastRemoval(timeouts, pending, toastId, duration) ==
    LET cleared == clearTimeoutOf(timeouts, pending, toastId)
        timeout == newHandle(timeouts, cleared, toastId)
    IN  [toastTimeouts |-> [k \in DOMAIN timeouts \cup {toastId} |->
                               IF k = toastId THEN timeout ELSE timeouts[k]],
         pendingTimeouts |-> cleared \cup { [handle |-> timeout,
                                             toastId |-> toastId,
                                             duration |-> duration] }]

\* [action.toast, ...state.toasts].slice(0, TOAST_LIMIT) with the new toast
\* placed last
addedToasts_OldestKept(toasts, newToast) ==
    SubSeq(toasts \o <<newToast>>, 1, TOAST_LIMIT)

\* [action.toast, ...state.toasts].slice(0, TOAST_LIMIT)
addedToasts(toasts, newToast) ==
    SubSeq(<<newToast>> \o toasts, 1, TOAST_LIMIT)

\* state.toasts.filter((t) => t.id !== toastId)
toastsWithout(toasts, toastId) ==
    SelectSeq(toasts, LAMBDA t : t.id # toastId)

\* the state.toasts.forEach of 'dismiss all': the timeout of every listed
\* toast cleared and deleted; n counts the toasts still to visit
RECURSIVE dismissEach(_, _, _, _)
dismissEach(toasts, n, timeouts, pending) ==
    IF n = 0 THEN [toastTimeouts |-> timeouts, pendingTimeouts |-> pending]
    ELSE dismissEach(toasts, n - 1,
                     timeoutsDelete(timeouts, toasts[n].id),
                     clearTimeoutOf(timeouts, pending, toasts[n].id))

\* reducer, with the timeouts it sets and clears on the way: the toasts,
\* the map and the pending timeouts after the action
reducer(state, timeouts, pending, action) ==
    CASE action.type = "ADD_TOAST" ->
           LET s == scheduleToastRemoval(
                        timeouts, pending, action.toast.id,
                        IF durationOf(action.toast) # 0
                        THEN durationOf(action.toast)
                        ELSE TOAST_DEFAULT_DURATION)
           IN  [toasts |-> addedToasts(state.toasts, action.toast),
                toastTimeouts |-> s.toastTimeouts,
                pendingTimeouts |-> s.pendingTimeouts]
      [] action.type = "UPDATE_TOAST" ->
           LET s == IF durationOf(action.toast) # 0
                    THEN scheduleToastRemoval(timeouts, pending,
                                              action.toast.id,
                                              durationOf(action.toast))
                    ELSE [toastTimeouts |-> timeouts,
                          pendingTimeouts |-> pending]
           IN  [toasts |-> [i \in 1..Len(state.toasts) |->
                              IF state.toasts[i].id = action.toast.id
                              THEN spread(state.toasts[i], action.toast)
                              ELSE state.toasts[i]],
                toastTimeouts |-> s.toastTimeouts,
                pendingTimeouts |-> s.pendingTimeouts]
      [] action.type = "DISMISS_TOAST" ->
           IF action.toastId # NULL
           THEN [toasts |-> toastsWithout(state.toasts, action.toastId),
                 toastTimeouts |-> timeoutsDelete(timeouts, action.toastId),
                 pendingTimeouts |-> clearTimeoutOf(timeouts, pending,
                                                    action.toastId)]
           ELSE LET s == dismissEach(state.toasts, Len(state.toasts),
                                     timeouts, pending)
                IN  [toasts |-> <<>>,
                     toastTimeouts |-> s.toastTimeouts,
                     pendingTimeouts |-> s.pendingTimeouts]
      [] action.type = "REMOVE_TOAST" ->
           [toasts |-> IF action.toastId = NULL THEN <<>>
                       ELSE toastsWithout(state.toasts, action.toastId),
            toastTimeouts |-> timeouts,
            pendingTimeouts |-> pending]

\* what no step of the toast store touches
outsideStore ==
    << awbList, awbMap, delhiveryPrefixMap, currentAwb, fileName, isVerifying,
       verificationStatus, selectedAwbs, timers, verificationDebounceTimerRef,
       clearInputTimerRef, readers, uploads, mounted, toast, filters, report,
       resumeVars, rvVars >>

\* dispatch: memoryState = reducer(memoryState, action)
dispatch(action) ==
    /\ \E r \in { reducer(memoryState, toastTimeouts, pendingTimeouts,
                          action) } :
          /\ memoryState' = [toasts |-> r.toasts]
          /\ toastTimeouts' = r.toastTimeouts
          /\ pendingTimeouts' = r.pendingTimeouts
    /\ UNCHANGED outsideStore

\* toast(props): genId and the ADD_TOAST it dispatches
toastCall(props) ==
    /\ count < MaxToasts
    /\ count' = count + 1
    /\ dispatch([type |-> "ADD_TOAST",
                 toast |-> spread(props, [id |-> count + 1, open |-> TRUE])])

\* update(props) of the object toast() returned for id
toastUpdate(id, props) ==
    /\ id \in 1..count
    /\ UNCHANGED count
    /\ dispatch([type |-> "UPDATE_TOAST",
                 toast |-> spread(props, [id |-> id])])

\* dismiss() of the object toast() returned, and dismiss(toastId?) of
\* useToast, which may come without an id
toastDismiss(toastId) ==
    /\ toastId \in 0..count
    /\ UNCHANGED count
    /\ dispatch([type |-> "DISMISS_TOAST", toastId |-> toastId])

\* onOpenChange(false) of a toast on display: closed by the user
onOpenChange(id) ==
    /\ \E i \in 1..Len(memoryState.toasts) : memoryState.toasts[i].id = id
    /\ memoryState' = [toasts |-> toastsWithout(memoryState.toasts, id)]
    /\ toastTimeouts' = timeoutsDelete(toastTimeouts, id)
    /\ pendingTimeouts' = clearTimeoutOf(toastTimeouts, pendingTimeouts, id)
    /\ UNCHANGED count
    /\ UNCHANGED outsideStore

\* the callback of setTimeout without its dispatch of REMOVE_TOAST
removalCallback_KeepsToast(t) ==
    /\ t \in pendingTimeouts
    /\ toastTimeouts' = timeoutsDelete(toastTimeouts, t.toastId)
    /\ pendingTimeouts' = pendingTimeouts \ {t}
    /\ UNCHANGED << memoryState, count >>
    /\ UNCHANGED outsideStore

\* the callback scheduleToastRemoval hands to setTimeout
removalCallback(t) ==
    /\ t \in pendingTimeouts
    /\ memoryState' = [toasts |-> toastsWithout(memoryState.toasts, t.toastId)]
    /\ toastTimeouts' = timeoutsDelete(toastTimeouts, t.toastId)
    /\ pendingTimeouts' = pendingTimeouts \ {t}
    /\ UNCHANGED count
    /\ UNCHANGED outsideStore

\* the props the pages hand to toast(): with and without a duration
ToastProps ==
    { [title |-> "Report Loaded Successfully"],
      [title |-> "AWB Verified", duration |-> 15000] }

\* the props handed to update()
UpdateProps ==
    { [title |-> "updated"],
      [title |-> "updated", duration |-> 15000] }

StoreInit ==
    /\ awbList = <<>>
    /\ awbMap = EmptyMap
    /\ delhiveryPrefixMap = EmptyMap
    /\ currentAwb = <<>>
    /\ fileName = NoFileName
    /\ isVerifying = FALSE
    /\ verificationStatus = "idle"
    /\ selectedAwbs = {}
    /\ timers = {}
    /\ verificationDebounceTimerRef = NULL
    /\ clearInputTimerRef = NULL
    /\ readers = EmptyBag
    /\ uploads = 0
    /\ mounted = TRUE
    /\ toast = NoToast
    /\ filters = NoFilters
    /\ report = NoReport
    /\ reportList = <<>>
    /\ resumeReaders = EmptyBag
    /\ resumeInitial
    /\ rvInitial
    /\ storeInitial

ToastCalled == \E props \in ToastProps : toastCall(props)

ToastUpdated ==
    \E id \in ToastIds : \E props \in UpdateProps : toastUpdate(id, props)

ToastDismissed == \E toastId \in {NULL} \cup ToastIds : toastDismiss(toastId)

ToastClosed == \E id \in ToastIds : onOpenChange(id)

TimeoutFires == \E t \in pendingTimeouts : removalCallback(t)

StoreNext ==
    \/ ToastCalled
    \/ ToastUpdated
    \/ ToastDismissed
    \/ ToastClosed
    \/ TimeoutFires

StoreSpec == StoreInit /\ [][StoreNext]_vars

\* a timeout that is not cleared fires once its duration has elapsed
FairStoreSpec ==
    StoreSpec /\ \A id \in ToastIds :
                    WF_vars(\E t \in pendingTimeouts :
                                t.toastId = id /\ removalCallback(t))

\* the actions a caller of the exported reducer can hand to it
StoreActions ==
    { [type |-> "ADD_TOAST", toast |-> spread(props, [id |-> id, open |-> TRUE])] :
        id \in ToastIds, props \in ToastProps }
    \cup { [type |-> "UPDATE_TOAST", toast |-> spread(props, [id |-> id])] :
             id \in ToastIds, props \in UpdateProps }
    \cup { [type |-> type, toastId |-> toastId] :
             type \in {"DISMISS_TOAST", "REMOVE_TOAST"},
             toastId \in {NULL} \cup ToastIds }

Dispatched == \E action \in StoreActions : UNCHANGED count /\ dispatch(action)

ReducerNext ==
    \/ Dispatched
    \/ TimeoutFires

ReducerSpec == StoreInit /\ [][ReducerNext]_vars

\* ------------------------------------------------------------------------
\* C35: the toast list is capped
\* ------------------------------------------------------------------------
\* the list of toasts never holds more than TOAST_LIMIT toasts
C35_AtMostLimit == Len(memoryState.toasts) <= TOAST_LIMIT

\* an ADD_TOAST leaves exactly the toast it carried
C35_AddLeavesAdded ==
    [][ \A action \in StoreActions :
          (action.type = "ADD_TOAST" /\ dispatch(action))
          => memoryState'.toasts = <<action.toast>> ]_vars

\* C35: in the toast store, after any sequence of ADD_TOAST, UPDATE_TOAST,
\* DISMISS_TOAST and REMOVE_TOAST actions the list of toasts holds at most
\* TOAST_LIMIT = 1 toast, and after an ADD_TOAST it holds exactly the toast
\* just added.
C35_ToastListCapped == []C35_AtMostLimit /\ C35_AddLeavesAdded

\* a toast was added while an earlier one was on display, and took its place
C35_Witness ==
    /\ Len(memoryState.toasts) = 1
    /\ memoryState.toasts[1].id = 2
    /\ 1 \in DOMAIN toastTimeouts
    /\ \E t \in pendingTimeouts : t.toastId = 1

\* ------------------------------------------------------------------------
\* C36: every toast goes away
\* ------------------------------------------------------------------------
\* the toast with this id is in the list
listed(toasts, id) == \E i \in 1..Len(toasts) : toasts[i].id = id

\* the pending timeouts that will remove the toast with this id
timeoutsFor(pending, id) == { t \in pending : t.toastId = id }

\* a toast in the list is eventually not in the list
C36_EventuallyAbsent ==
    \A id \in ToastIds :
        listed(memoryState.toasts, id) ~> ~listed(memoryState.toasts, id)

\* toast() puts the toast in the list and leaves one pending timeout for it,
\* of the duration given or of 5000 ms
C36_RemovalScheduled ==
    [][ \A props \in ToastProps :
          toastCall(props)
          => /\ listed(memoryState'.toasts, count')
             /\ \E t \in pendingTimeouts' :
                   /\ timeoutsFor(pendingTimeouts', count') = {t}
                   /\ toastTimeouts'[count'] = t.handle
                   /\ t.duration = IF "duration" \in DOMAIN props
                                   THEN props.duration
                                   ELSE 5000 ]_vars

\* the timeout of a toast removes it when it fires
C36_TimeoutRemoves ==
    [][ \A t \in pendingTimeouts :
          removalCallback(t) => ~listed(memoryState'.toasts, t.toastId) ]_vars

\* a toast dismissed or closed is out of the list in the same step, and so
\* is its timeout
C36_DismissedAtOnce ==
    [][ \A id \in ToastIds :
          ( \/ toastDismiss(id)
            \/ onOpenChange(id)
            \/ toastDismiss(NULL) /\ listed(memoryState.toasts, id) )
          => /\ ~listed(memoryState'.toasts, id)
             /\ id \notin DOMAIN toastTimeouts'
             /\ timeoutsFor(pendingTimeouts', id) = {} ]_vars

\* C36: every toast added to the toast store is eventually absent from the
\* list of toasts: it is removed when its duration (5000 ms when none is
\* given) elapses, or earlier when it is dismissed or closed by the user, and
\* a dismissed toast is removed immediately with its removal timer cancelled.
C36_EveryToastGoesAway ==
    /\ C36_EventuallyAbsent
    /\ C36_RemovalScheduled
    /\ C36_TimeoutRemoves
    /\ C36_DismissedAtOnce

\* two toasts were shown, the first one's timeout has fired and the second
\* is on display with its timeout pending
C36_Witness ==
    /\ count = 2
    /\ listed(memoryState.toasts, 2)
    /\ ~listed(memoryState.toasts, 1)
    /\ 1 \notin DOMAIN toastTimeouts
    /\ timeoutsFor(pendingTimeouts, 1) = {}
    /\ timeoutsFor(pendingTimeouts, 2) # {}

====
